---------------------------- MODULE Spec2Model ----------------------------
(***************************************************************************)
(* A model of the multi-agent code review engine of                        *)
(* Code_Error_Check_AI_Agent/code_review_agent.py.                         *)
(*                                                                         *)
(* A source text is a sequence of one-character strings.  The texts that   *)
(* are reviewed are concatenations of the statements of a small catalogue  *)
(* (Chunks); for each statement the catalogue records the text and what    *)
(* CPython's ast.parse builds for it.  Everything the repository computes  *)
(* from a text (splitting, stripping, regular-expression search, the tree  *)
(* walks, the metrics, the report) is computed here from those two.        *)
(***************************************************************************)
EXTENDS Integers, Sequences, FiniteSets, TLC

(***************************************************************************)
(* Bounds of the model.                                                    *)
(***************************************************************************)
MaxChunks == 1        \* catalogue statements per reviewed text (Spec)
NCalls == 2           \* review calls that may be in flight (SpecConc)
MaxIssues == 4        \* issues of a directly built ReviewResult (SpecSummary)

(***************************************************************************)
(* Characters and the str methods the source uses.                         *)
(***************************************************************************)
NL == "\n"
TAB == "\t"
Backtick == "U+0060"    \* the grave accent, which a string literal cannot hold
Surrogate == "U+D800"   \* a lone surrogate code point: str.encode() rejects it

\* printable ASCII, code points 32..126, in order
Ascii ==
  << " ", "!", "\"", "#", "$", "%", "&", "'", "(", ")", "*", "+", ",", "-", ".", "/",
     "0", "1", "2", "3", "4", "5", "6", "7", "8", "9", ":", ";", "<", "=", ">", "?",
     "@", "A", "B", "C", "D", "E", "F", "G", "H", "I", "J", "K", "L", "M", "N", "O",
     "P", "Q", "R", "S", "T", "U", "V", "W", "X", "Y", "Z", "[", "\\", "]", "^", "_",
     Backtick, "a", "b", "c", "d", "e", "f", "g", "h", "i", "j", "k", "l", "m", "n", "o",
     "p", "q", "r", "s", "t", "u", "v", "w", "x", "y", "z", "{", "|", "}", "~" >>

\* ord(c)
CodePoint ==
  [c \in {Ascii[i] : i \in 1..Len(Ascii)} \cup {TAB, NL, Surrogate} |->
     IF c = TAB THEN 9
     ELSE IF c = NL THEN 10
     ELSE IF c = Surrogate THEN 55296
     ELSE 31 + (CHOOSE i \in 1..Len(Ascii) : Ascii[i] = c)]

Ord(c) == CodePoint[c]

UpperChars == { Ascii[i] : i \in 34..59 }
LowerChars == { Ascii[i] : i \in 66..91 }
DigitChars == { Ascii[i] : i \in 17..26 }

\* str.lower() on one character
LowerOf == [c \in UpperChars |-> Ascii[CodePoint[c] - 31 + 32]]

Lower(c) == IF c \in UpperChars THEN LowerOf[c] ELSE c

\* \s of the re module, and the characters str.strip() removes
SpaceChars == {" ", TAB, NL}
IsSpace(c) == c \in SpaceChars

\* \w of the re module
WordChars == UpperChars \cup LowerChars \cup DigitChars \cup {"_"}
IsWord(c) == c \in WordChars

\* s.startswith(prefix)
StartsWith(s, prefix) ==
  /\ Len(s) >= Len(prefix)
  /\ SubSeq(s, 1, Len(prefix)) = prefix

\* s.endswith(suffix)
EndsWith(s, suffix) ==
  /\ Len(s) >= Len(suffix)
  /\ SubSeq(s, Len(s) - Len(suffix) + 1, Len(s)) = suffix

\* c in s, for a one-character c
Contains(s, c) == \E i \in 1..Len(s) : s[i] = c

\* s[:n]
Prefix(s, n) == SubSeq(s, 1, IF Len(s) < n THEN Len(s) ELSE n)

\* s.strip()
Strip(s) ==
  LET keep == { i \in 1..Len(s) : ~IsSpace(s[i]) } IN
  IF keep = {} THEN << >>
  ELSE SubSeq(s, CHOOSE i \in keep : \A j \in keep : i <= j,
                 CHOOSE i \in keep : \A j \in keep : i >= j)

\* s.split('\n'): always at least one line
RECURSIVE SplitFrom(_, _)
SplitFrom(s, start) ==
  LET breaks == { i \in start..Len(s) : s[i] = NL } IN
  IF breaks = {} THEN << SubSeq(s, start, Len(s)) >>
  ELSE LET i == CHOOSE i \in breaks : \A j \in breaks : i <= j IN
       << SubSeq(s, start, i - 1) >> \o SplitFrom(s, i + 1)

Split(s) == SplitFrom(s, 1)

\* "\n".join(lines)
RECURSIVE Join(_)
Join(lines) ==
  IF Len(lines) = 0 THEN << >>
  ELSE IF Len(lines) = 1 THEN lines[1]
  ELSE lines[1] \o << NL >> \o Join(Tail(lines))

\* the sum of q[lo..hi], and of a sequence of numbers
RECURSIVE SumRange(_, _, _)
SumRange(q, lo, hi) ==
  IF lo > hi THEN 0
  ELSE IF lo = hi THEN q[lo]
  ELSE SumRange(q, lo, (lo + hi) \div 2) + SumRange(q, (lo + hi) \div 2 + 1, hi)

SumSeq(q) == SumRange(q, 1, Len(q))

\* the concatenation of q[lo..hi], and of a sequence of sequences
RECURSIVE FlattenRange(_, _, _)
FlattenRange(q, lo, hi) ==
  IF lo > hi THEN << >>
  ELSE IF lo = hi THEN q[lo]
  ELSE FlattenRange(q, lo, (lo + hi) \div 2) \o FlattenRange(q, (lo + hi) \div 2 + 1, hi)

Flatten(q) == FlattenRange(q, 1, Len(q))

(***************************************************************************)
(* Regular expressions.  A pattern is a sequence of items:                 *)
(*   a character item matches between lo and hi characters of a class      *)
(*   (hi = -1: no upper limit); "bol" and "eol" are ^ and $; "alt" is a    *)
(*   group of alternatives; "not" is a negative lookahead (?!...).         *)
(* Only whether a pattern matches somewhere is ever used (re.search as a   *)
(* truth value), so the order in which repetitions are tried is immaterial.*)
(***************************************************************************)
Item(cls, cs, lo, hi) == [k |-> "ch", cls |-> cls, cs |-> cs, lo |-> lo, hi |-> hi, sub |-> << >>]
Lit(c) == Item("in", {c}, 1, 1)
Lits(s) == [i \in 1..Len(s) |-> Lit(s[i])]
OneOf(cs) == Item("in", cs, 1, 1)
Opt(c) == Item("in", {c}, 0, 1)
SpaceStar == Item("space", {}, 0, -1)
SpacePlus == Item("space", {}, 1, -1)
WordPlus == Item("word", {}, 1, -1)
AnyStar == Item("any", {}, 0, -1)
NotInStar(cs) == Item("notin", cs, 0, -1)
NotInPlus(cs) == Item("notin", cs, 1, -1)
Bol == [k |-> "bol", cls |-> "", cs |-> {}, lo |-> 0, hi |-> 0, sub |-> << >>]
Eol == [k |-> "eol", cls |-> "", cs |-> {}, lo |-> 0, hi |-> 0, sub |-> << >>]
Alt(alts) == [k |-> "alt", cls |-> "", cs |-> {}, lo |-> 0, hi |-> 0, sub |-> alts]
NotAhead(p) == [k |-> "not", cls |-> "", cs |-> {}, lo |-> 0, hi |-> 0, sub |-> << p >>]

\* flags of re.search
NoFlags == [ignorecase |-> FALSE, multiline |-> FALSE]
IgnoreCase == [ignorecase |-> TRUE, multiline |-> FALSE]
Multiline == [ignorecase |-> FALSE, multiline |-> TRUE]

CharMatches(it, c, fl) ==
  IF it.cls = "in"
    THEN IF fl.ignorecase THEN \E d \in it.cs : Lower(d) = Lower(c) ELSE c \in it.cs
  ELSE IF it.cls = "space" THEN IsSpace(c)
  ELSE IF it.cls = "word" THEN IsWord(c)
  ELSE IF it.cls = "any" THEN c # NL
  ELSE \* "notin"
       IF fl.ignorecase THEN \A d \in it.cs : Lower(d) # Lower(c) ELSE c \notin it.cs

\* does p[i..] match s from position pos on
RECURSIVE Match(_, _, _, _, _)
Match(p, i, s, pos, fl) ==
  IF i > Len(p) THEN TRUE
  ELSE
    LET it == p[i] IN
    IF it.k = "ch"
      THEN IF it.lo = 1 /\ it.hi = 1
             THEN /\ pos <= Len(s)
                  /\ CharMatches(it, s[pos], fl)
                  /\ Match(p, i + 1, s, pos + 1, fl)
             ELSE LET most == IF it.hi = -1 \/ it.hi > Len(s) - pos + 1
                                THEN Len(s) - pos + 1 ELSE it.hi
                  IN  \E n \in it.lo..most :
                        /\ \A j \in pos..(pos + n - 1) : CharMatches(it, s[j], fl)
                        /\ Match(p, i + 1, s, pos + n, fl)
    ELSE IF it.k = "bol"
      THEN /\ pos = 1 \/ (fl.multiline /\ s[pos - 1] = NL)
           /\ Match(p, i + 1, s, pos, fl)
    ELSE IF it.k = "eol"
      THEN /\ \/ pos = Len(s) + 1
              \/ pos = Len(s) /\ s[pos] = NL
              \/ fl.multiline /\ pos <= Len(s) /\ s[pos] = NL
           /\ Match(p, i + 1, s, pos, fl)
    ELSE IF it.k = "alt"
      THEN \E a \in 1..Len(it.sub) :
              Match(it.sub[a] \o SubSeq(p, i + 1, Len(p)), 1, s, pos, fl)
    ELSE \* "not"
           /\ ~Match(it.sub[1], 1, s, pos, fl)
           /\ Match(p, i + 1, s, pos, fl)

\* re.search(p, s, flags) as a truth value
Search(p, s, fl) == \E pos \in 1..(Len(s) + 1) : Match(p, 1, s, pos, fl)

\* len(re.findall(r'[+\-*/=<>!&|^~%]', s))
OperatorChars == {"+", "-", "*", "/", "=", "<", ">", "!", "&", "|", "^", "~", "%"}
CountOperators(s) == Cardinality({ i \in 1..Len(s) : s[i] \in OperatorChars })

\* len(re.findall(r'\b\w+\b', s)): the maximal runs of word characters
CountWords(s) ==
  Cardinality({ i \in 1..Len(s) : IsWord(s[i]) /\ (i = 1 \/ ~IsWord(s[i - 1])) })

(***************************************************************************)
(* Enums (lines 43-69), in declaration order.                              *)
(***************************************************************************)
Severity == << "critical", "high", "medium", "low", "info" >>
IssueCategory ==
  << "security", "performance", "style", "complexity", "documentation",
     "syntax", "best_practice", "maintainability" >>
Language == << "python", "javascript", "typescript", "java", "go", "unknown" >>

Range(q) == { q[i] : i \in DOMAIN q }

\* Optional[...] values: None is the empty sequence, a value v is << v >>
None == << >>
Some(v) == << v >>

\* CodeIssue (lines 115-124)
CodeIssue(message, severity, category, line_number, column, suggestion, code_snippet) ==
  [ message |-> message, severity |-> severity, category |-> category,
    line_number |-> line_number, column |-> column,
    suggestion |-> suggestion, code_snippet |-> code_snippet ]

\* the maintainability index is a float; the model keeps it in units of 1/10000
Scale == 10000

\* CodeMetrics() with its field defaults (lines 139-152)
CodeMetrics ==
  [ lines_of_code |-> 0, blank_lines |-> 0, comment_lines |-> 0,
    cyclomatic_complexity |-> 1, cognitive_complexity |-> 0,
    maintainability_index |-> 100 * Scale,
    function_count |-> 0, class_count |-> 0,
    avg_function_length |-> 0, max_function_length |-> 0, nesting_depth |-> 0 ]

\* get_grade with every threshold exclusive (>)
get_grade_above(metrics) ==
  IF metrics.maintainability_index > 80 * Scale THEN "A"
  ELSE IF metrics.maintainability_index > 60 * Scale THEN "B"
  ELSE IF metrics.maintainability_index > 40 * Scale THEN "C"
  ELSE IF metrics.maintainability_index > 20 * Scale THEN "D"
  ELSE "F"

\* CodeMetrics.get_grade
get_grade(metrics) ==
  IF metrics.maintainability_index >= 80 * Scale THEN "A"
  ELSE IF metrics.maintainability_index >= 60 * Scale THEN "B"
  ELSE IF metrics.maintainability_index >= 40 * Scale THEN "C"
  ELSE IF metrics.maintainability_index >= 20 * Scale THEN "D"
  ELSE "F"

\* ReviewResult (lines 183-192)
ReviewResult(code_hash, language, timestamp, issues, metrics, execution_time) ==
  [ code_hash |-> code_hash, language |-> language, timestamp |-> timestamp,
    issues |-> issues, metrics |-> metrics, ai_suggestions |-> None,
    execution_time |-> execution_time ]

\* sum(1 for i in issues if i.severity == s)
CountSeverity(issues, s) == Cardinality({ i \in DOMAIN issues : issues[i].severity = s })

\* _calculate_risk_level with the HIGH threshold off by one (high_count >= 2)
calculate_risk_level_off_by_one(result) ==
  LET critical_count == CountSeverity(result.issues, "critical")
      high_count == CountSeverity(result.issues, "high")
  IN  IF critical_count > 0 THEN "CRITICAL"
      ELSE IF high_count >= 2 THEN "HIGH"
      ELSE IF high_count > 0 THEN "MEDIUM"
      ELSE "LOW"

\* ReviewResult._calculate_risk_level
calculate_risk_level(result) ==
  LET critical_count == CountSeverity(result.issues, "critical")
      high_count == CountSeverity(result.issues, "high")
  IN  IF critical_count > 0 THEN "CRITICAL"
      ELSE IF high_count > 2 THEN "HIGH"
      ELSE IF high_count > 0 THEN "MEDIUM"
      ELSE "LOW"

\* the loop of get_summary after its first n turns: both maps start at zero
\* for every member of the enum and each issue increments one key of each
RECURSIVE CountIssues(_, _)
CountIssues(issues, n) ==
  IF n = 0
    THEN [ severity_counts |-> [s \in Range(Severity) |-> 0],
           category_counts |-> [c \in Range(IssueCategory) |-> 0] ]
    ELSE LET before == CountIssues(issues, n - 1) IN
         [ severity_counts |->
             [before.severity_counts EXCEPT ![issues[n].severity] = @ + 1],
           category_counts |->
             [before.category_counts EXCEPT ![issues[n].category] = @ + 1] ]

\* get_summary with maps that start empty and get a key when an issue of
\* that severity or category is first met
get_summary_seen_keys(result) ==
  LET counts == CountIssues(result.issues, Len(result.issues))
      severities == { result.issues[i].severity : i \in DOMAIN result.issues }
      categories == { result.issues[i].category : i \in DOMAIN result.issues }
  IN  [ total_issues |-> Len(result.issues),
        by_severity |-> [s \in severities |-> counts.severity_counts[s]],
        by_category |-> [c \in categories |-> counts.category_counts[c]],
        quality_grade |-> get_grade(result.metrics),
        risk_level |-> calculate_risk_level(result) ]

\* ReviewResult.get_summary
get_summary(result) ==
  LET counts == CountIssues(result.issues, Len(result.issues))
  IN  [ total_issues |-> Len(result.issues),
        by_severity |-> counts.severity_counts,
        by_category |-> counts.category_counts,
        quality_grade |-> get_grade(result.metrics),
        risk_level |-> calculate_risk_level(result) ]
(***************************************************************************)
(* Syntax trees.  A node records what the source reads of an ast node:     *)
(* its class, name, lineno, its children in iter_child_nodes order (kids), *)
(* where its body lies among them, len(values) of a BoolOp, whether an     *)
(* ExceptHandler has no type, the classes of a function's defaults,        *)
(* len(args.args), the names of an import's aliases, whether a Constant    *)
(* holds a str, and the module of an ImportFrom.                           *)
(***************************************************************************)
Node(type, name, lineno, bodyAt, bodyLen, nvalues, bare, defaults, nargs, aliases, isStr, module, kids) ==
  [ type |-> type, name |-> name, lineno |-> lineno, bodyAt |-> bodyAt,
    bodyLen |-> bodyLen, nvalues |-> nvalues, bare |-> bare, defaults |-> defaults,
    nargs |-> nargs, aliases |-> aliases, isStr |-> isStr, module |-> module,
    kids |-> kids ]

Leaf(type, lineno, kids) ==
  Node(type, << >>, lineno, 0, 0, 0, FALSE, << >>, 0, << >>, FALSE, "", kids)

(***************************************************************************)
(* The catalogue of statements: the lines of each and what ast.parse       *)
(* (CPython 3.11) answers for it: the nodes it adds to Module.body, or the *)
(* SyntaxError's msg, lineno and offset.                                   *)
(***************************************************************************)
Chunks == <<
  [ name |-> "EvalDef",
    lines |-> << <<"d", "e", "f", " ", "f", "(", ")", ":">>,
                 <<" ", " ", " ", " ", "e", "v", "a", "l", "(", "x", ")">> >>,
    valid |-> TRUE, msg |-> "", errline |-> 0, erroffset |-> 0,
    nodes |-> <<
        Node("FunctionDef", <<"f">>, 1, 2, 1, 0, FALSE, <<>>, 0, <<>>, FALSE, "",
          <<
          Leaf("arguments", 0, << >>),
          Leaf("Expr", 2, <<
            Leaf("Call", 2, <<
              Leaf("Name", 2, <<
                Leaf("Load", 0, << >>) >>),
              Leaf("Name", 2, <<
                Leaf("Load", 0, << >>) >>) >>) >>) >>) >> ],
  [ name |-> "Semi",
    lines |-> << <<"x", "=", "1", ";", "y", "=", "2">> >>,
    valid |-> TRUE, msg |-> "", errline |-> 0, erroffset |-> 0,
    nodes |-> <<
        Leaf("Assign", 1, <<
          Leaf("Name", 1, <<
            Leaf("Store", 0, << >>) >>),
          Leaf("Constant", 1, << >>) >>),
        Leaf("Assign", 1, <<
          Leaf("Name", 1, <<
            Leaf("Store", 0, << >>) >>),
          Leaf("Constant", 1, << >>) >>) >> ],
  [ name |-> "BadDef",
    lines |-> << <<"d", "e", "f", " ", "f", "(", ":">> >>,
    valid |-> FALSE, msg |-> "invalid syntax", errline |-> 1, erroffset |-> 7,
    nodes |-> << >> ],
  [ name |-> "Sys",
    lines |-> << <<"#", " ", "n", "o", "t", "e">>,
                 <<"i", "m", "p", "o", "r", "t", " ", "o", "s">>,
                 <<"o", "s", ".", "s", "y", "s", "t", "e", "m", "(", "c", ")">> >>,
    valid |-> TRUE, msg |-> "", errline |-> 0, erroffset |-> 0,
    nodes |-> <<
        Node("Import", <<>>, 2, 0, 0, 0, FALSE, <<>>, 0, <<"os">>, FALSE, "",
          <<
          Leaf("alias", 2, << >>) >>),
        Leaf("Expr", 3, <<
          Leaf("Call", 3, <<
            Leaf("Attribute", 3, <<
              Leaf("Name", 3, <<
                Leaf("Load", 0, << >>) >>),
              Leaf("Load", 0, << >>) >>),
            Leaf("Name", 3, <<
              Leaf("Load", 0, << >>) >>) >>) >>) >> ],
  [ name |-> "Js",
    lines |-> << <<"v", "a", "r", " ", "e", "l", " ", "=", " ", "1", ";", " ">>,
                 <<"e", "l", ".", "i", "n", "n", "e", "r", "H", "T", "M", "L", " ", "=", " ", "E", "V", "A", "L", "(", "e", "l", ")">> >>,
    valid |-> FALSE, msg |-> "invalid syntax", errline |-> 1, erroffset |-> 5,
    nodes |-> << >> ],
  [ name |-> "Nest",
    lines |-> << <<"i", "f", " ", "a", ":">>,
                 <<" ", "i", "f", " ", "b", ":">>,
                 <<" ", " ", "i", "f", " ", "c", ":">>,
                 <<" ", " ", " ", "i", "f", " ", "d", ":">>,
                 <<" ", " ", " ", " ", "i", "f", " ", "e", " ", "o", "r", " ", "f", " ", "o", "r", " ", "g", " ", "o", "r", " ", "h", " ", "o", "r", " ", "i", " ", "o", "r", " ", "j", ":">>,
                 <<" ", " ", " ", " ", " ", "p", "a", "s", "s">> >>,
    valid |-> TRUE, msg |-> "", errline |-> 0, erroffset |-> 0,
    nodes |-> <<
        Node("If", <<>>, 1, 2, 1, 0, FALSE, <<>>, 0, <<>>, FALSE, "",
          <<
          Leaf("Name", 1, <<
            Leaf("Load", 0, << >>) >>),
          Node("If", <<>>, 2, 2, 1, 0, FALSE, <<>>, 0, <<>>, FALSE, "",
            <<
            Leaf("Name", 2, <<
              Leaf("Load", 0, << >>) >>),
            Node("If", <<>>, 3, 2, 1, 0, FALSE, <<>>, 0, <<>>, FALSE, "",
              <<
              Leaf("Name", 3, <<
                Leaf("Load", 0, << >>) >>),
              Node("If", <<>>, 4, 2, 1, 0, FALSE, <<>>, 0, <<>>, FALSE, "",
                <<
                Leaf("Name", 4, <<
                  Leaf("Load", 0, << >>) >>),
                Node("If", <<>>, 5, 2, 1, 0, FALSE, <<>>, 0, <<>>, FALSE, "",
                  <<
                  Node("BoolOp", <<>>, 5, 0, 0, 6, FALSE, <<>>, 0, <<>>, FALSE, "",
                    <<
                    Leaf("Or", 0, << >>),
                    Leaf("Name", 5, <<
                      Leaf("Load", 0, << >>) >>),
                    Leaf("Name", 5, <<
                      Leaf("Load", 0, << >>) >>),
                    Leaf("Name", 5, <<
                      Leaf("Load", 0, << >>) >>),
                    Leaf("Name", 5, <<
                      Leaf("Load", 0, << >>) >>),
                    Leaf("Name", 5, <<
                      Leaf("Load", 0, << >>) >>),
                    Leaf("Name", 5, <<
                      Leaf("Load", 0, << >>) >>) >>),
                  Leaf("Pass", 6, << >>) >>) >>) >>) >>) >>) >> ],
  [ name |-> "Chain",
    lines |-> << <<"a", ".", "b", ".", "b", ".", "b", ".", "b", ".", "b", ".", "b", ".", "b", ".", "b", ".", "b">> >>,
    valid |-> TRUE, msg |-> "", errline |-> 0, erroffset |-> 0,
    nodes |-> <<
        Leaf("Expr", 1, <<
          Leaf("Attribute", 1, <<
            Leaf("Attribute", 1, <<
              Leaf("Attribute", 1, <<
                Leaf("Attribute", 1, <<
                  Leaf("Attribute", 1, <<
                    Leaf("Attribute", 1, <<
                      Leaf("Attribute", 1, <<
                        Leaf("Attribute", 1, <<
                          Leaf("Attribute", 1, <<
                            Leaf("Name", 1, <<
                              Leaf("Load", 0, << >>) >>),
                            Leaf("Load", 0, << >>) >>),
                          Leaf("Load", 0, << >>) >>),
                        Leaf("Load", 0, << >>) >>),
                      Leaf("Load", 0, << >>) >>),
                    Leaf("Load", 0, << >>) >>),
                  Leaf("Load", 0, << >>) >>),
                Leaf("Load", 0, << >>) >>),
              Leaf("Load", 0, << >>) >>),
            Leaf("Load", 0, << >>) >>) >>) >> ],
  [ name |-> "Surr",
    lines |-> << <<"s", " ", "=", " ", "'", Surrogate, "'">> >>,
    valid |-> TRUE, msg |-> "", errline |-> 0, erroffset |-> 0,
    nodes |-> <<
        Leaf("Assign", 1, <<
          Leaf("Name", 1, <<
            Leaf("Store", 0, << >>) >>),
          Node("Constant", <<>>, 1, 0, 0, 0, FALSE, <<>>, 0, <<>>, TRUE, "",
            << >>) >>) >> ],
  [ name |-> "Bad",
    lines |-> << <<"f", "r", "o", "m", " ", "m", " ", "i", "m", "p", "o", "r", "t", " ", "*">>,
                 <<"c", "l", "a", "s", "s", " ", "C", ":">>,
                 <<" ", " ", " ", " ", "d", "e", "f", " ", "_", "p", "(", "s", "e", "l", "f", ",", " ", "a", "=", "[", "]", ")", ":">>,
                 <<" ", " ", " ", " ", " ", " ", " ", " ", "g", "l", "o", "b", "a", "l", " ", "z">>,
                 <<" ", " ", " ", " ", " ", " ", " ", " ", "t", "r", "y", ":">>,
                 <<" ", " ", " ", " ", " ", " ", " ", " ", " ", " ", " ", " ", "p", "a", "s", "s">>,
                 <<" ", " ", " ", " ", " ", " ", " ", " ", "e", "x", "c", "e", "p", "t", ":">>,
                 <<" ", " ", " ", " ", " ", " ", " ", " ", " ", " ", " ", " ", "p", "a", "s", "s">> >>,
    valid |-> TRUE, msg |-> "", errline |-> 0, erroffset |-> 0,
    nodes |-> <<
        Node("ImportFrom", <<>>, 1, 0, 0, 0, FALSE, <<>>, 0, <<"*">>, FALSE, "m",
          <<
          Leaf("alias", 1, << >>) >>),
        Node("ClassDef", <<"C">>, 2, 1, 1, 0, FALSE, <<>>, 0, <<>>, FALSE, "",
          <<
          Node("FunctionDef", <<"_", "p">>, 3, 2, 2, 0, FALSE, <<"List">>, 2, <<>>, FALSE, "",
            <<
            Leaf("arguments", 0, <<
              Leaf("arg", 3, << >>),
              Leaf("arg", 3, << >>),
              Leaf("List", 3, <<
                Leaf("Load", 0, << >>) >>) >>),
            Leaf("Global", 4, << >>),
            Node("Try", <<>>, 5, 1, 1, 0, FALSE, <<>>, 0, <<>>, FALSE, "",
              <<
              Leaf("Pass", 6, << >>),
              Node("ExceptHandler", <<>>, 7, 1, 1, 0, TRUE, <<>>, 0, <<>>, FALSE, "",
                <<
                Leaf("Pass", 8, << >>) >>) >>) >>) >>) >> ],
  [ name |-> "Long",
    lines |-> << <<"x", " ", "=", " ", "1", "1", "1", "1", "1", "1", "1", "1", "1", "1", "1", "1", "1", "1", "1", "1", "1", "1", "1", "1", "1", "1", "1", "1", "1", "1", "1", "1", "1", "1", "1", "1", "1", "1", "1", "1", "1", "1", "1", "1", "1", "1", "1", "1", "1", "1", "1", "1", "1", "1", "1", "1", "1", "1", "1", "1", "1", "1", "1", "1", "1", "1", "1", "1", "1", "1", "1", "1", "1", "1", "1", "1", "1", "1", "1", "1", "1", "1", "1", "1", "1", "1", "1", "1", "1", " ">> >>,
    valid |-> TRUE, msg |-> "", errline |-> 0, erroffset |-> 0,
    nodes |-> <<
        Leaf("Assign", 1, <<
          Leaf("Name", 1, <<
            Leaf("Store", 0, << >>) >>),
          Leaf("Constant", 1, << >>) >>) >> ],
  [ name |-> "Deep",
    lines |-> << <<"a", ".", "b", ".", "b", ".", "b", ".", "b", ".", "b", ".", "b", ".", "b">> >>,
    valid |-> TRUE, msg |-> "", errline |-> 0, erroffset |-> 0,
    nodes |-> <<
        Leaf("Expr", 1, <<
          Leaf("Attribute", 1, <<
            Leaf("Attribute", 1, <<
              Leaf("Attribute", 1, <<
                Leaf("Attribute", 1, <<
                  Leaf("Attribute", 1, <<
                    Leaf("Attribute", 1, <<
                      Leaf("Attribute", 1, <<
                        Leaf("Name", 1, <<
                          Leaf("Load", 0, << >>) >>),
                        Leaf("Load", 0, << >>) >>),
                      Leaf("Load", 0, << >>) >>),
                    Leaf("Load", 0, << >>) >>),
                  Leaf("Load", 0, << >>) >>),
                Leaf("Load", 0, << >>) >>),
              Leaf("Load", 0, << >>) >>),
            Leaf("Load", 0, << >>) >>) >>) >> ],
  [ name |-> "Tie",
    lines |-> << <<"k", " ", ":", "=", " ", "1", " ", "/", "/", " ", "=", ">">> >>,
    valid |-> FALSE, msg |-> "invalid syntax", errline |-> 1, erroffset |-> 3,
    nodes |-> << >> ],
  [ name |-> "Late",
    lines |-> << <<"f", "r", "o", "m", "_", "d", "a", "t", "e", " ", "=", " ", "i", "n", "p", "u", "t", "(", ")">>,
                 <<"i", "m", "p", "o", "r", "t", " ", "o", "s">>,
                 <<"y", " ", "=", " ", "e", "v", "a", "l", "(", "e", "v", "a", "l", "(", "f", "r", "o", "m", "_", "d", "a", "t", "e", ")", ")">>,
                 <<"i", "m", "p", "o", "r", "t", " ", "r", "e">> >>,
    valid |-> TRUE, msg |-> "", errline |-> 0, erroffset |-> 0,
    nodes |-> <<
        Leaf("Assign", 1, <<
          Leaf("Name", 1, <<
            Leaf("Store", 0, << >>) >>),
          Leaf("Call", 1, <<
            Leaf("Name", 1, <<
              Leaf("Load", 0, << >>) >>) >>) >>),
        Node("Import", <<>>, 2, 0, 0, 0, FALSE, <<>>, 0, <<"os">>, FALSE, "",
          <<
          Leaf("alias", 2, << >>) >>),
        Leaf("Assign", 3, <<
          Leaf("Name", 3, <<
            Leaf("Store", 0, << >>) >>),
          Leaf("Call", 3, <<
            Leaf("Name", 3, <<
              Leaf("Load", 0, << >>) >>),
            Leaf("Call", 3, <<
              Leaf("Name", 3, <<
                Leaf("Load", 0, << >>) >>),
              Leaf("Name", 3, <<
                Leaf("Load", 0, << >>) >>) >>) >>) >>),
        Node("Import", <<>>, 4, 0, 0, 0, FALSE, <<>>, 0, <<"re">>, FALSE, "",
          <<
          Leaf("alias", 4, << >>) >>) >> ] >>

\* SECURITY_PATTERNS: per language key, the (pattern, message, severity)
\* entries in the order the dict literal lists them
SECURITY_PATTERNS ==
  ("python" :> <<
      [ pattern |-> Lits(<<"e", "v", "a", "l">>) \o <<SpaceStar>> \o Lits(<<"(">>),
        message |-> "Use of eval()", severity |-> "critical" ],
      [ pattern |-> Lits(<<"e", "x", "e", "c">>) \o <<SpaceStar>> \o Lits(<<"(">>),
        message |-> "Use of exec()", severity |-> "critical" ],
      [ pattern |-> Lits(<<"o", "s", ".", "s", "y", "s", "t", "e", "m">>) \o <<SpaceStar>> \o Lits(<<"(">>),
        message |-> "Use of os.system()", severity |-> "high" ],
      [ pattern |-> Lits(<<"s", "u", "b", "p", "r", "o", "c", "e", "s", "s", ".", "c", "a", "l", "l">>) \o <<SpaceStar>> \o Lits(<<"(">>) \o <<AnyStar>> \o Lits(<<"s", "h", "e", "l", "l">>) \o <<SpaceStar>> \o Lits(<<"=">>) \o <<SpaceStar>> \o Lits(<<"T", "r", "u", "e">>),
        message |-> "Shell injection risk", severity |-> "critical" ],
      [ pattern |-> Lits(<<"p", "i", "c", "k", "l", "e", ".", "l", "o", "a", "d">>) \o <<Opt("s")>>,
        message |-> "Unsafe deserialization with pickle", severity |-> "high" ],
      [ pattern |-> Lits(<<"y", "a", "m", "l", ".", "l", "o", "a", "d">>) \o <<SpaceStar>> \o Lits(<<"(">>) \o <<NotInStar({")"})>> \o Lits(<<")">>) \o <<NotAhead(<<AnyStar>> \o Lits(<<"L", "o", "a", "d", "e", "r">>))>>,
        message |-> "Unsafe YAML loading", severity |-> "high" ],
      [ pattern |-> Lits(<<"_", "_", "i", "m", "p", "o", "r", "t", "_", "_">>) \o <<SpaceStar>> \o Lits(<<"(">>),
        message |-> "Dynamic import", severity |-> "medium" ],
      [ pattern |-> Lits(<<"i", "n", "p", "u", "t">>) \o <<SpaceStar>> \o Lits(<<"(">>),
        message |-> "User input without validation", severity |-> "low" ],
      [ pattern |-> Lits(<<"p", "a", "s", "s", "w", "o", "r", "d">>) \o <<SpaceStar>> \o Lits(<<"=">>) \o <<SpaceStar>> \o <<OneOf({"\"", "'"})>> \o <<NotInPlus({"\"", "'"})>> \o <<OneOf({"\"", "'"})>>,
        message |-> "Hardcoded password", severity |-> "critical" ],
      [ pattern |-> Lits(<<"a", "p", "i", "_", "k", "e", "y">>) \o <<SpaceStar>> \o Lits(<<"=">>) \o <<SpaceStar>> \o <<OneOf({"\"", "'"})>> \o <<NotInPlus({"\"", "'"})>> \o <<OneOf({"\"", "'"})>>,
        message |-> "Hardcoded API key", severity |-> "critical" ],
      [ pattern |-> Lits(<<"s", "e", "c", "r", "e", "t">>) \o <<SpaceStar>> \o Lits(<<"=">>) \o <<SpaceStar>> \o <<OneOf({"\"", "'"})>> \o <<NotInPlus({"\"", "'"})>> \o <<OneOf({"\"", "'"})>>,
        message |-> "Hardcoded secret", severity |-> "critical" ] >>)
  @@ ("javascript" :> <<
      [ pattern |-> Lits(<<"e", "v", "a", "l">>) \o <<SpaceStar>> \o Lits(<<"(">>),
        message |-> "Use of eval()", severity |-> "critical" ],
      [ pattern |-> Lits(<<"i", "n", "n", "e", "r", "H", "T", "M", "L">>) \o <<SpaceStar>> \o Lits(<<"=">>),
        message |-> "XSS vulnerability via innerHTML", severity |-> "high" ],
      [ pattern |-> Lits(<<"d", "o", "c", "u", "m", "e", "n", "t", ".", "w", "r", "i", "t", "e">>) \o <<SpaceStar>> \o Lits(<<"(">>),
        message |-> "Use of document.write()", severity |-> "medium" ],
      [ pattern |-> Lits(<<"$", "(">>) \o <<AnyStar>> \o Lits(<<")", ".", "h", "t", "m", "l">>) \o <<SpaceStar>> \o Lits(<<"(">>),
        message |-> "Potential XSS in jQuery", severity |-> "high" ] >>)

\* LanguageDetector.PATTERNS, in the order the dict literal lists them
PATTERNS == <<
  [ lang |-> "python",
    patterns |-> <<
      <<Bol>> \o <<SpaceStar>> \o Lits(<<"d", "e", "f">>) \o <<SpacePlus>> \o <<WordPlus>> \o <<SpaceStar>> \o Lits(<<"(">>),
      <<Bol>> \o <<SpaceStar>> \o Lits(<<"c", "l", "a", "s", "s">>) \o <<SpacePlus>> \o <<WordPlus>>,
      <<Bol>> \o <<SpaceStar>> \o Lits(<<"i", "m", "p", "o", "r", "t">>) \o <<SpacePlus>> \o <<WordPlus>>,
      <<Bol>> \o <<SpaceStar>> \o Lits(<<"f", "r", "o", "m">>) \o <<SpacePlus>> \o <<WordPlus>> \o <<SpacePlus>> \o Lits(<<"i", "m", "p", "o", "r", "t">>),
      Lits(<<":">>) \o <<SpaceStar>> \o <<Eol>>,
      <<Bol>> \o <<SpaceStar>> \o Lits(<<"@">>) \o <<WordPlus>> >> ],
  [ lang |-> "javascript",
    patterns |-> <<
      <<Bol>> \o <<SpaceStar>> \o Lits(<<"f", "u", "n", "c", "t", "i", "o", "n">>) \o <<SpacePlus>> \o <<WordPlus>> \o <<SpaceStar>> \o Lits(<<"(">>),
      <<Bol>> \o <<SpaceStar>> \o Lits(<<"c", "o", "n", "s", "t">>) \o <<SpacePlus>> \o <<WordPlus>> \o <<SpaceStar>> \o Lits(<<"=">>),
      <<Bol>> \o <<SpaceStar>> \o Lits(<<"l", "e", "t">>) \o <<SpacePlus>> \o <<WordPlus>> \o <<SpaceStar>> \o Lits(<<"=">>),
      <<Bol>> \o <<SpaceStar>> \o Lits(<<"v", "a", "r">>) \o <<SpacePlus>> \o <<WordPlus>> \o <<SpaceStar>> \o Lits(<<"=">>),
      Lits(<<"=", ">">>),
      Lits(<<"c", "o", "n", "s", "o", "l", "e", ".", "l", "o", "g">>) >> ],
  [ lang |-> "typescript",
    patterns |-> <<
      Lits(<<":">>) \o <<SpaceStar>> \o <<Alt(<<Lits(<<"s", "t", "r", "i", "n", "g">>), Lits(<<"n", "u", "m", "b", "e", "r">>), Lits(<<"b", "o", "o", "l", "e", "a", "n">>), Lits(<<"a", "n", "y">>)>>)>> \o <<SpaceStar>> \o <<OneOf({";", "=", ")"})>>,
      Lits(<<"i", "n", "t", "e", "r", "f", "a", "c", "e">>) \o <<SpacePlus>> \o <<WordPlus>>,
      Lits(<<"t", "y", "p", "e">>) \o <<SpacePlus>> \o <<WordPlus>> \o <<SpaceStar>> \o Lits(<<"=">>),
      Lits(<<"<">>) \o <<WordPlus>> \o Lits(<<">">>) >> ],
  [ lang |-> "java",
    patterns |-> <<
      Lits(<<"p", "u", "b", "l", "i", "c">>) \o <<SpacePlus>> \o Lits(<<"c", "l", "a", "s", "s">>) \o <<SpacePlus>> \o <<WordPlus>>,
      Lits(<<"p", "r", "i", "v", "a", "t", "e">>) \o <<SpacePlus>> \o <<WordPlus>> \o <<SpacePlus>> \o <<WordPlus>>,
      Lits(<<"S", "y", "s", "t", "e", "m", ".", "o", "u", "t", ".", "p", "r", "i", "n", "t", "l", "n">>),
      Lits(<<"p", "u", "b", "l", "i", "c">>) \o <<SpacePlus>> \o Lits(<<"s", "t", "a", "t", "i", "c">>) \o <<SpacePlus>> \o Lits(<<"v", "o", "i", "d">>) \o <<SpacePlus>> \o Lits(<<"m", "a", "i", "n">>) >> ],
  [ lang |-> "go",
    patterns |-> <<
      <<Bol>> \o Lits(<<"p", "a", "c", "k", "a", "g", "e">>) \o <<SpacePlus>> \o <<WordPlus>>,
      <<Bol>> \o Lits(<<"f", "u", "n", "c">>) \o <<SpacePlus>> \o <<WordPlus>> \o <<SpaceStar>> \o Lits(<<"(">>),
      Lits(<<"f", "m", "t", ".", "P", "r", "i", "n", "t", "l", "n">>),
      Lits(<<":", "=">>) >> ] >>

\* 1000 * (n * (1 + n / 10)) ** 0.23 for n = 1..120, rounded: the volume term
\* of line 421 for operators + operands = n
VolumePow ==
  << 1022, 1223, 1368, 1486, 1590, 1682, 1768, 1847, 1921, 1992,
     2059, 2123, 2185, 2244, 2302, 2357, 2411, 2464, 2515, 2564,
     2613, 2660, 2707, 2752, 2797, 2840, 2883, 2925, 2967, 3008,
     3048, 3087, 3126, 3164, 3202, 3239, 3275, 3312, 3347, 3382,
     3417, 3452, 3486, 3519, 3552, 3585, 3618, 3650, 3682, 3713,
     3744, 3775, 3806, 3836, 3866, 3896, 3925, 3954, 3983, 4012,
     4040, 4069, 4096, 4124, 4152, 4179, 4206, 4233, 4260, 4286,
     4313, 4339, 4365, 4390, 4416, 4441, 4467, 4492, 4517, 4541,
     4566, 4590, 4615, 4639, 4663, 4687, 4710, 4734, 4757, 4781,
     4804, 4827, 4850, 4872, 4895, 4917, 4940, 4962, 4984, 5006,
     5028, 5050, 5072, 5093, 5115, 5136, 5158, 5179, 5200, 5221,
     5242, 5262, 5283, 5304, 5324, 5345, 5365, 5385, 5405, 5425 >>

\* 1000 * loc ** 0.25 for loc = 1..60, rounded
LocPow ==
  << 1000, 1189, 1316, 1414, 1495, 1565, 1627, 1682, 1732, 1778,
     1821, 1861, 1899, 1934, 1968, 2000, 2031, 2060, 2088, 2115,
     2141, 2166, 2190, 2213, 2236, 2258, 2280, 2300, 2321, 2340,
     2360, 2378, 2397, 2415, 2432, 2449, 2466, 2483, 2499, 2515,
     2530, 2546, 2561, 2576, 2590, 2604, 2618, 2632, 2646, 2659,
     2672, 2685, 2698, 2711, 2723, 2736, 2748, 2760, 2771, 2783 >>

(***************************************************************************)
(* The reviewed texts.  A code is a sequence of statements of the          *)
(* catalogue, each with its lines and with what ast.parse answers for it;  *)
(* its text is the statements' lines joined by newlines.                   *)
(***************************************************************************)
CodeLines(code) == Flatten([i \in 1..Len(code) |-> code[i].lines])

\* the str the caller passes as `code`
Text(code) == Join(CodeLines(code))

\* the line on which statement number i of the code starts, minus one
RECURSIVE LineOffset(_, _)
LineOffset(code, i) ==
  IF i = 1 THEN 0 ELSE LineOffset(code, i - 1) + Len(code[i - 1].lines)

(***************************************************************************)
(* ast.parse.  CPython rejects a text it cannot encode, then reports the   *)
(* first syntax error, then builds the tree, and fails with RecursionError *)
(* when the tree is nested deeper than the interpreter's parser allows.    *)
(* A recursive walk written in Python (analyze_node) runs out of frames on *)
(* a shallower tree than the parser does.  Both limits are scaled down to  *)
(* the size of the catalogue.                                              *)
(***************************************************************************)
\* the deepest tree ast.parse builds
ParserDepthLimit == 12

\* the deepest tree a recursive Python function walks
RecursionLimit == 10

RECURSIVE Shift(_, _)
Shift(node, off) ==
  [ node EXCEPT !.lineno = IF @ = 0 THEN 0 ELSE @ + off,
                !.kids = [k \in DOMAIN node.kids |-> Shift(node.kids[k], off)] ]

RECURSIVE NodeDepth(_)
NodeDepth(node) ==
  LET ds == { NodeDepth(node.kids[k]) : k \in DOMAIN node.kids } IN
  1 + (IF ds = {} THEN 0 ELSE CHOOSE d \in ds : \A e \in ds : d >= e)

\* the Module node with the given statements as its body
ModuleNode(body) ==
  Node("Module", << >>, 0, IF body = << >> THEN 0 ELSE 1, Len(body), 0, FALSE,
       << >>, 0, << >>, FALSE, "", body)

\* the Module node of a code whose statements are all valid
ModuleOf(code) ==
  ModuleNode(Flatten([i \in 1..Len(code) |->
    [k \in DOMAIN code[i].nodes |-> Shift(code[i].nodes[k], LineOffset(code, i))]]))

\* what ast.parse(code) does: the exception it raises, or the tree it returns
Outcome(kind, tree, msg, lineno, offset) ==
  [ kind |-> kind, tree |-> tree, msg |-> msg, lineno |-> lineno, offset |-> offset ]

NoTree == Leaf("Module", 0, << >>)

\* the tree is built, unless it is too deep
Built(tree) ==
  IF NodeDepth(tree) > ParserDepthLimit
    THEN Outcome("RecursionError", NoTree, "", 0, 0)
    ELSE Outcome("Module", tree, "", 0, 0)

ast_parse(code) ==
  LET bad == { i \in 1..Len(code) : ~code[i].valid }
      first == CHOOSE i \in bad : \A j \in bad : i <= j
  IN  IF Contains(Text(code), Surrogate)
        THEN Outcome("UnicodeEncodeError", NoTree, "", 0, 0)
      ELSE IF bad # {}
        THEN Outcome("SyntaxError", NoTree, code[first].msg,
                     code[first].errline + LineOffset(code, first),
                     code[first].erroffset)
      ELSE Built(ModuleOf(code))

\* str(e) of a SyntaxError
SyntaxErrorStr(p) == p.msg \o " (<unknown>, line " \o ToString(p.lineno) \o ")"

\* ast.walk: breadth first, children in iter_child_nodes order; a level of
\* the tree is followed by the children of its nodes
RECURSIVE WalkLevel(_)
WalkLevel(level) ==
  IF level = << >> THEN << >>
  ELSE level \o WalkLevel(Flatten([n \in DOMAIN level |-> level[n].kids]))

ast_walk(tree) == WalkLevel(<< tree >>)

\* node.body
Body(node) ==
  IF node.bodyAt = 0 THEN << >>
  ELSE SubSeq(node.kids, node.bodyAt, node.bodyAt + node.bodyLen - 1)

\* node.body is not empty and node.body[0] is an Expr holding a str Constant
HasDocstring(node) ==
  /\ Body(node) # << >>
  /\ Body(node)[1].type = "Expr"
  /\ Body(node)[1].kids[1].type = "Constant"
  /\ Body(node)[1].kids[1].isStr

\* ", ".join(names)
RECURSIVE JoinNames(_)
JoinNames(names) ==
  IF names = << >> THEN ""
  ELSE IF Len(names) = 1 THEN names[1]
  ELSE names[1] \o ", " \o JoinNames(Tail(names))

(***************************************************************************)
(* Results of calls that may raise: raised, the exception's type, and the  *)
(* returned value when nothing was raised.                                 *)
(***************************************************************************)
Returned(v) == [raised |-> FALSE, exc |-> "", value |-> v]
Raised(e, v) == [raised |-> TRUE, exc |-> e, value |-> v]

\* CodeUtils.compute_hash: md5 is replaced by a 32-digit positional checksum
\* of the encoded text; the first 12 hex digits are kept
HexDigits == << "0", "1", "2", "3", "4", "5", "6", "7", "8", "9",
                "a", "b", "c", "d", "e", "f" >>

Digest(s) ==
  LET plain == SumSeq([i \in 1..Len(s) |-> Ord(s[i])])
      weighted == SumSeq([i \in 1..Len(s) |-> i * Ord(s[i])])
  IN  [k \in 1..32 |-> HexDigits[1 + ((k * plain + weighted + k * k) % 16)]]

compute_hash(text) ==
  IF Contains(text, Surrogate) THEN Raised("UnicodeEncodeError", << >>)
  ELSE Returned(SubSeq(Digest(text), 1, 12))

\* CodeUtils.count_lines
count_lines(text) ==
  LET lines == Split(text) IN
  [ total |-> Len(lines),
    blank |-> Cardinality({ i \in DOMAIN lines : Strip(lines[i]) = << >> }),
    comment |-> Cardinality({ i \in DOMAIN lines :
                   \/ StartsWith(Strip(lines[i]), << "#" >>)
                   \/ StartsWith(Strip(lines[i]), << "/", "/" >>) }) ]

\* LanguageDetector.detect: the number of patterns of a language that match
Score(patterns, text) ==
  Cardinality({ p \in DOMAIN patterns : Search(patterns[p], text, Multiline) })

\* max(scores, key=scores.get) giving the last language with the largest
\* score
LastMax(rows, scores) ==
  LET best == CHOOSE r \in DOMAIN rows :
                /\ \A m \in DOMAIN rows : scores[r] >= scores[m]
                /\ \A m \in DOMAIN rows : m > r => scores[m] < scores[r]
  IN  IF scores[best] > 0 THEN rows[best].lang ELSE "unknown"

\* max(scores, key=scores.get): the first language, in the order of the
\* table, with the largest score; UNKNOWN when no pattern matches
FirstMax(rows, scores) ==
  LET best == CHOOSE r \in DOMAIN rows :
                /\ \A m \in DOMAIN rows : scores[r] >= scores[m]
                /\ \A m \in DOMAIN rows : m < r => scores[m] < scores[r]
  IN  IF scores[best] > 0 THEN rows[best].lang ELSE "unknown"

DetectIn(rows, text) ==
  FirstMax(rows, [r \in DOMAIN rows |-> Score(rows[r].patterns, text)])

detect(text) == DetectIn(PATTERNS, text)

\* analyze_ast, lines 335-354: an entry per FunctionDef, ClassDef, Import and
\* ImportFrom met by ast.walk
FunctionEntry(node) ==
  IF node.type = "FunctionDef"
    THEN << [ name |-> node.name, line |-> node.lineno, args_count |-> node.nargs,
              has_docstring |-> HasDocstring(node) ] >>
    ELSE << >>

ClassEntry(node) ==
  IF node.type = "ClassDef"
    THEN << [ name |-> node.name, line |-> node.lineno,
              methods_count |->
                Cardinality({ b \in DOMAIN Body(node) :
                                Body(node)[b].type = "FunctionDef" }) ] >>
    ELSE << >>

ImportEntry(node) ==
  IF node.type = "Import" THEN node.aliases
  ELSE IF node.type = "ImportFrom"
    THEN << node.module \o "." \o JoinNames(node.aliases) >>
  ELSE << >>

\* the dict analyze_ast returns for a tree
Analysis(nodes) ==
  [ valid |-> TRUE,
    functions |-> Flatten([n \in DOMAIN nodes |-> FunctionEntry(nodes[n])]),
    classes |-> Flatten([n \in DOMAIN nodes |-> ClassEntry(nodes[n])]),
    imports |-> Flatten([n \in DOMAIN nodes |-> ImportEntry(nodes[n])]),
    error |-> "", line |-> None, offset |-> None ]

\* the dict it returns for a SyntaxError
Invalid(error, line, offset) ==
  [ valid |-> FALSE, functions |-> << >>, classes |-> << >>, imports |-> << >>,
    error |-> error, line |-> line, offset |-> offset ]

\* analyze_ast once ast.parse has answered p: only SyntaxError is caught
AnalyzeParsed(p) ==
  IF p.kind = "Module" THEN Returned(Analysis(ast_walk(p.tree)))
  ELSE IF p.kind = "SyntaxError"
    THEN Returned(Invalid(SyntaxErrorStr(p), Some(p.lineno), Some(p.offset)))
  ELSE Raised(p.kind, Invalid("", None, None))

\* CodeAnalysisTools.analyze_ast
analyze_ast(code) == AnalyzeParsed(ast_parse(code))

MaxOf(q) ==
  IF q = << >> THEN 0 ELSE q[CHOOSE i \in DOMAIN q : \A j \in DOMAIN q : q[i] >= q[j]]

\* the walk of calculate_complexity: what analyze_node(node, depth) and the
\* calls it makes for the subtree add to cyclomatic and cognitive, and the
\* largest new_depth they pass to max()
RECURSIVE analyze_node(_, _)
analyze_node(node, depth) ==
  LET branches == node.type \in {"If", "While", "For", "ExceptHandler"}
      cyclomatic == IF branches THEN 1
                    ELSE IF node.type = "BoolOp" THEN node.nvalues - 1
                    ELSE 0
      cognitive == IF branches THEN 1 + depth
                   ELSE IF node.type = "BoolOp" THEN node.nvalues - 1
                   ELSE 0
      nests == node.type \in {"If", "While", "For", "With", "Try"}
      new_depth == IF nests THEN depth + 1 ELSE depth
      children == [k \in DOMAIN node.kids |-> analyze_node(node.kids[k], new_depth)]
  IN  [ cyclomatic |-> cyclomatic + SumSeq([k \in DOMAIN children |-> children[k].cyclomatic]),
        cognitive |-> cognitive + SumSeq([k \in DOMAIN children |-> children[k].cognitive]),
        max_nesting |-> MaxOf(<< IF nests THEN new_depth ELSE 0 >>
                                \o [k \in DOMAIN children |-> children[k].max_nesting]) ]

\* the counters with cyclomatic initialised to 0 instead of 1
CountersFromZero(walked) == walked

\* calculate_complexity, lines 376-378 and 399-403: cyclomatic starts at 1,
\* cognitive and max_nesting at 0, and the walk adds to them
Counters(walked) ==
  [ cyclomatic |-> 1 + walked.cyclomatic, cognitive |-> walked.cognitive,
    max_nesting |-> walked.max_nesting ]

\* calculate_complexity once ast.parse has answered p: the bare except turns
\* every failure, of ast.parse or of the recursive walk, into the all-zero
\* result
ComplexityParsed(p) ==
  IF p.kind = "Module" /\ NodeDepth(p.tree) <= RecursionLimit
    THEN Counters(analyze_node(p.tree, 0))
    ELSE [cyclomatic |-> 0, cognitive |-> 0, max_nesting |-> 0]

\* CodeAnalysisTools.calculate_complexity
calculate_complexity(code) == ComplexityParsed(ast_parse(code))

\* CodeAnalysisTools.calculate_maintainability_index, in units of 1/Scale
calculate_maintainability_index(text, complexity) ==
  LET lines == Split(text)
      loc == Cardinality({ i \in DOMAIN lines :
                /\ Strip(lines[i]) # << >>
                /\ ~StartsWith(Strip(lines[i]), << "#" >>) })
      operators == CountOperators(text)
      operands == CountWords(text)
      volume_pow == IF operators + operands > 0
                      THEN VolumePow[operators + operands]
                      ELSE 1000
      mi == 171 * Scale - 52 * volume_pow - 2300 * complexity - 162 * LocPow[loc]
  IN  IF loc = 0 THEN 100 * Scale
      ELSE IF mi > 100 * Scale THEN 100 * Scale
      ELSE IF mi < 0 THEN 0
      ELSE mi

\* the patterns of the language's own table only, none for a language that
\* has no table
PatternsOwnTable(table, language) ==
  IF language \in DOMAIN table THEN table[language] ELSE << >>

\* SECURITY_PATTERNS.get(lang_key, SECURITY_PATTERNS.get('python', []))
PatternsFor(table, language) ==
  table[IF language \in DOMAIN table THEN language ELSE "python"]

\* check_security, lines 433-443: every line against every pattern
ScanLines(patterns, lines) ==
  Flatten([i \in DOMAIN lines |->
    Flatten([p \in DOMAIN patterns |->
      IF Search(patterns[p].pattern, lines[i], IgnoreCase)
        THEN << CodeIssue(patterns[p].message, patterns[p].severity, "security",
                          Some(i), None, None,
                          Some(Prefix(Strip(lines[i]), 50))) >>
        ELSE << >>])])

\* CodeAnalysisTools.check_security
check_security(text, language) ==
  ScanLines(PatternsFor(SECURITY_PATTERNS, language), Split(text))

\* the loop body of check_style for line number i; the flag
\* import_section_ended is carried from line to line
RECURSIVE StyleFrom(_, _, _, _)
StyleFrom(lines, i, import_section_ended, max_line_length) ==
  IF i > Len(lines) THEN << >>
  ELSE
    LET line == lines[i]
        stripped == Strip(line)
        ended ==
          \/ import_section_ended
          \/ /\ stripped # << >>
             /\ ~StartsWith(stripped, << "#" >>)
             /\ ~StartsWith(stripped, << "i", "m", "p", "o", "r", "t" >>)
             /\ ~StartsWith(stripped, << "f", "r", "o", "m" >>)
        too_long ==
          IF Len(line) > max_line_length
            THEN << CodeIssue("Line too long (" \o ToString(Len(line)) \o " > "
                                \o ToString(max_line_length) \o ")",
                              "low", "style", Some(i), None,
                              Some("Break line into multiple lines"), None) >>
            ELSE << >>
        trailing ==
          IF EndsWith(line, << " " >>) \/ EndsWith(line, << TAB >>)
            THEN << CodeIssue("Trailing whitespace", "info", "style",
                              Some(i), None, None, None) >>
            ELSE << >>
        late_import ==
          IF ended /\ (\/ StartsWith(stripped, << "i", "m", "p", "o", "r", "t", " " >>)
                       \/ StartsWith(stripped, << "f", "r", "o", "m", " " >>))
            THEN << CodeIssue("Import not at top of file", "low", "style",
                              Some(i), None,
                              Some("Move imports to the top of the file"), None) >>
            ELSE << >>
        multiple ==
          IF Contains(line, ";") /\ ~StartsWith(Strip(line), << "#" >>)
            THEN << CodeIssue("Multiple statements on one line", "low", "style",
                              Some(i), None, Some("Split into separate lines"), None) >>
            ELSE << >>
    IN  too_long \o trailing \o late_import \o multiple
          \o StyleFrom(lines, i + 1, ended, max_line_length)

\* CodeAnalysisTools.check_style
check_style(text, max_line_length) == StyleFrom(Split(text), 1, FALSE, max_line_length)

\* str() of a sequence of characters
RECURSIVE StrOf(_)
StrOf(s) == IF s = << >> THEN "" ELSE s[1] \o StrOf(Tail(s))

\* check_documentation, lines 505-533: what a node met by ast.walk adds
MissingDocstring(node) ==
  IF node.type = "FunctionDef"
    THEN IF ~HasDocstring(node) /\ ~StartsWith(node.name, << "_" >>)
           THEN << CodeIssue("Function '" \o StrOf(node.name) \o "' missing docstring",
                             "low", "documentation", Some(node.lineno), None,
                             Some("Add a docstring describing the function's purpose"),
                             None) >>
           ELSE << >>
  ELSE IF node.type = "ClassDef"
    THEN IF ~HasDocstring(node)
           THEN << CodeIssue("Class '" \o StrOf(node.name) \o "' missing docstring",
                             "low", "documentation", Some(node.lineno), None,
                             Some("Add a docstring describing the class"), None) >>
           ELSE << >>
  ELSE << >>

DocumentationIssues(nodes) == Flatten([n \in DOMAIN nodes |-> MissingDocstring(nodes[n])])

\* check_documentation once ast.parse has answered p: only SyntaxError is
\* caught
DocumentationParsed(p) ==
  IF p.kind = "SyntaxError" THEN Returned(<< >>)
  ELSE IF p.kind # "Module" THEN Raised(p.kind, << >>)
  ELSE Returned(DocumentationIssues(ast_walk(p.tree)))

\* CodeAnalysisTools.check_documentation
check_documentation(code) == DocumentationParsed(ast_parse(code))

\* check_best_practices, lines 547-584: what a node met by ast.walk adds
BadPractices(node) ==
  LET bare_except ==
        IF node.type = "ExceptHandler" /\ node.bare
          THEN << CodeIssue("Bare 'except:' clause", "medium", "best_practice",
                            Some(node.lineno), None,
                            Some("Specify exception type, e.g., 'except Exception:'"),
                            None) >>
          ELSE << >>
      mutable_defaults ==
        IF node.type = "FunctionDef"
          THEN Flatten([d \in DOMAIN node.defaults |->
                 IF node.defaults[d] \in {"List", "Dict", "Set"}
                   THEN << CodeIssue("Mutable default argument in '" \o StrOf(node.name) \o "'",
                                     "medium", "best_practice", Some(node.lineno), None,
                                     Some("Use None as default and initialize inside function"),
                                     None) >>
                   ELSE << >>])
          ELSE << >>
      global_statement ==
        IF node.type = "Global"
          THEN << CodeIssue("Use of 'global' statement", "low", "best_practice",
                            Some(node.lineno), None,
                            Some("Consider passing values as parameters instead"), None) >>
          ELSE << >>
      star_import ==
        IF node.type = "ImportFrom" /\ (\E a \in DOMAIN node.aliases : node.aliases[a] = "*")
          THEN << CodeIssue("Star import from '" \o node.module \o "'",
                            "medium", "best_practice", Some(node.lineno), None,
                            Some("Import specific names instead of using *"), None) >>
          ELSE << >>
  IN  bare_except \o mutable_defaults \o global_statement \o star_import

BestPracticeIssues(nodes) == Flatten([n \in DOMAIN nodes |-> BadPractices(nodes[n])])

\* check_best_practices once ast.parse has answered p: only SyntaxError is
\* caught
BestPracticesParsed(p) ==
  IF p.kind = "SyntaxError" THEN Returned(<< >>)
  ELSE IF p.kind # "Module" THEN Raised(p.kind, << >>)
  ELSE Returned(BestPracticeIssues(ast_walk(p.tree)))

\* CodeAnalysisTools.check_best_practices
check_best_practices(code) == BestPracticesParsed(ast_parse(code))

(***************************************************************************)
(* Agents (lines 594-704).  An agent object is its class name and the      *)
(* parameters its constructor stores.                                      *)
(***************************************************************************)
Agent(name, max_line_length, max_complexity) ==
  [ name |-> name, max_line_length |-> max_line_length,
    max_complexity |-> max_complexity ]

\* the defaults of StyleAgent.__init__ and ComplexityAgent.__init__
DefaultMaxLineLength == 88
DefaultMaxComplexity == 10

\* the nesting above which ComplexityAgent reports (line 672)
NestingThreshold == 4

\* the agent list with StyleAgent constructed first
OrchestratorAgentsStyleFirst ==
  << Agent("StyleAgent", DefaultMaxLineLength, 0),
     Agent("SyntaxAnalyzer", 0, 0),
     Agent("SecurityAgent", 0, 0),
     Agent("ComplexityAgent", 0, DefaultMaxComplexity),
     Agent("DocumentationAgent", 0, 0),
     Agent("BestPracticesAgent", 0, 0) >>

\* CodeReviewOrchestrator.__init__: self.agents
OrchestratorAgents ==
  << Agent("SyntaxAnalyzer", 0, 0),
     Agent("SecurityAgent", 0, 0),
     Agent("StyleAgent", DefaultMaxLineLength, 0),
     Agent("ComplexityAgent", 0, DefaultMaxComplexity),
     Agent("DocumentationAgent", 0, 0),
     Agent("BestPracticesAgent", 0, 0) >>

\* the issue of SyntaxAnalyzerAgent without the position of the error
SyntaxIssuesNoPosition(ast_result) ==
  IF ast_result.raised THEN Raised(ast_result.exc, << >>)
  ELSE IF ~ast_result.value.valid
    THEN Returned(<< CodeIssue("Syntax Error: " \o ast_result.value.error,
                               "critical", "syntax", None, None, None, None) >>)
  ELSE Returned(<< >>)

\* SyntaxAnalyzerAgent.analyze, lines 617-626: the issue for what analyze_ast
\* answered
SyntaxIssues(ast_result) ==
  IF ast_result.raised THEN Raised(ast_result.exc, << >>)
  ELSE IF ~ast_result.value.valid
    THEN Returned(<< CodeIssue("Syntax Error: " \o ast_result.value.error,
                               "critical", "syntax",
                               ast_result.value.line, ast_result.value.offset,
                               None, None) >>)
  ELSE Returned(<< >>)

\* SyntaxAnalyzerAgent.analyze
SyntaxAnalyze(code, language) ==
  IF language = "python" THEN SyntaxIssues(analyze_ast(code)) ELSE Returned(<< >>)

\* SecurityAgent.analyze
SecurityAnalyze(code, language) == Returned(check_security(Text(code), language))

\* StyleAgent.analyze
StyleAnalyze(agent, code, language) ==
  Returned(check_style(Text(code), agent.max_line_length))

\* ComplexityAgent.analyze, lines 662-678: the issues for what
\* calculate_complexity answered
ComplexityIssues(agent, complexity) ==
  LET high ==
        IF complexity.cyclomatic > agent.max_complexity
          THEN << CodeIssue("High cyclomatic complexity: "
                              \o ToString(complexity.cyclomatic) \o " (max: "
                              \o ToString(agent.max_complexity) \o ")",
                            "medium", "complexity", None, None,
                            Some("Consider breaking down into smaller functions"),
                            None) >>
          ELSE << >>
      deep ==
        IF complexity.max_nesting > NestingThreshold
          THEN << CodeIssue("Deep nesting detected: "
                              \o ToString(complexity.max_nesting) \o " levels",
                            "medium", "complexity", None, None,
                            Some("Reduce nesting by using early returns or extracting functions"),
                            None) >>
          ELSE << >>
  IN  high \o deep

\* ComplexityAgent.analyze
ComplexityAnalyze(agent, code, language) ==
  IF language = "python"
    THEN Returned(ComplexityIssues(agent, calculate_complexity(code)))
    ELSE Returned(<< >>)

\* DocumentationAgent.analyze
DocumentationAnalyze(code, language) ==
  IF language = "python" THEN check_documentation(code) ELSE Returned(<< >>)

\* BestPracticesAgent.analyze
BestPracticesAnalyze(code, language) ==
  IF language = "python" THEN check_best_practices(code) ELSE Returned(<< >>)

\* agent.analyze(code, language), dispatched on the agent's class
analyze(agent, code, language) ==
  CASE agent.name = "SyntaxAnalyzer" -> SyntaxAnalyze(code, language)
    [] agent.name = "SecurityAgent" -> SecurityAnalyze(code, language)
    [] agent.name = "StyleAgent" -> StyleAnalyze(agent, code, language)
    [] agent.name = "ComplexityAgent" -> ComplexityAnalyze(agent, code, language)
    [] agent.name = "DocumentationAgent" -> DocumentationAnalyze(code, language)
    [] agent.name = "BestPracticesAgent" -> BestPracticesAnalyze(code, language)

\* _calculate_metrics, lines 759-763: the line counts
LineMetrics(counts) ==
  [CodeMetrics EXCEPT
     !.lines_of_code = counts.total - counts.blank - counts.comment,
     !.blank_lines = counts.blank,
     !.comment_lines = counts.comment]

\* _calculate_metrics, lines 766-772: the complexity and the index
ComplexityMetrics(metrics, complexity, text) ==
  [metrics EXCEPT
     !.cyclomatic_complexity = complexity.cyclomatic,
     !.cognitive_complexity = complexity.cognitive,
     !.nesting_depth = complexity.max_nesting,
     !.maintainability_index =
        calculate_maintainability_index(text, complexity.cyclomatic)]

\* _calculate_metrics, lines 774-777: the counts of functions and classes;
\* what analyze_ast raises is not caught
TreeMetrics(metrics, ast_result) ==
  IF ast_result.raised THEN Raised(ast_result.exc, metrics)
  ELSE IF ast_result.value.valid
    THEN Returned([metrics EXCEPT
           !.function_count = Len(ast_result.value.functions),
           !.class_count = Len(ast_result.value.classes)])
  ELSE Returned(metrics)

\* _calculate_metrics without the test of the language
calculate_metrics_any_language(code, language) ==
  TreeMetrics(ComplexityMetrics(LineMetrics(count_lines(Text(code))),
                                calculate_complexity(code), Text(code)),
              analyze_ast(code))

\* CodeReviewOrchestrator._calculate_metrics
calculate_metrics(code, language) ==
  IF language = "python"
    THEN TreeMetrics(ComplexityMetrics(LineMetrics(count_lines(Text(code))),
                                       calculate_complexity(code), Text(code)),
                     analyze_ast(code))
    ELSE Returned(LineMetrics(count_lines(Text(code))))

(***************************************************************************)
(* The state.                                                              *)
(*   agents  the agent list of the process-wide orchestrator (line 846)    *)
(*   calls   the review_code calls: where each stands and its locals       *)
(*   sample  a ReviewResult built directly from its constructor            *)
(*   gemini_reviewer  the process-wide GeminiCodeReviewer (line 847)       *)
(*   handler  the /api/review request being served: where api_review       *)
(*            stands and its locals                                        *)
(***************************************************************************)
VARIABLES agents, calls, sample, gemini_reviewer, handler

vars == << agents, calls, sample, gemini_reviewer, handler >>

Calls == 1..NCalls

\* what datetime.now() and time.time() - start_time may give
ClockReadings == {0, 1}

\* language=None of review_code
NoLanguage == "None"

IdleCall ==
  [ pc |-> "idle", code |-> << >>, declared |-> NoLanguage, language |-> NoLanguage,
    code_hash |-> << >>, idx |-> 0, all_issues |-> << >>, errors |-> << >>,
    metrics |-> CodeMetrics, result |-> None, exc |-> "" ]

\* ReviewResult with only its required fields
EmptyResult == ReviewResult(<< >>, "unknown", 0, << >>, CodeMetrics, 0)

\* GeminiCodeReviewer.__init__ (lines 788-800): available only when the
\* client library was imported, a key was given and configure() succeeded
GeminiCodeReviewer(configured) == [ available |-> configured ]

\* no request being served
IdleHandler ==
  [ pc |-> "idle", body |-> << >>, code |-> << >>, language |-> NoLanguage,
    include_ai |-> FALSE, invoked |-> FALSE, result |-> None,
    ai |-> "not_called", writes |-> << >>, response |-> None,
    served |-> 0, allocated |-> 0, reports |-> << >> ]

\* the process after lines 846-847; review_code and ReviewResult never read
\* gemini_reviewer, and their specifications start where the client library
\* is missing (lines 31-36)
Init ==
  /\ agents = OrchestratorAgents
  /\ calls = [c \in Calls |-> IdleCall]
  /\ sample = EmptyResult
  /\ gemini_reviewer = GeminiCodeReviewer(FALSE)
  /\ handler = IdleHandler

\* review_code, lines 726-733: the locals of a call that has resolved the
\* language, hashed the text and made its empty issue list
Entered(code, declared, language, code_hash) ==
  IF code_hash.raised
    THEN [IdleCall EXCEPT !.code = code, !.declared = declared,
                          !.language = language,
                          !.pc = "raised", !.exc = code_hash.exc]
    ELSE [IdleCall EXCEPT !.code = code, !.declared = declared,
                          !.language = language,
                          !.pc = "agents", !.idx = 1,
                          !.code_hash = code_hash.value]

\* review_code, lines 726-733: resolve the language, hash the text, start
\* with an empty issue list
StartReview(c, code, declared) ==
  /\ calls[c].pc = "idle"
  /\ \E language \in {IF declared = NoLanguage THEN detect(Text(code)) ELSE declared},
        code_hash \in {compute_hash(Text(code))} :
       calls' = [calls EXCEPT ![c] = Entered(code, declared, language, code_hash)]
  /\ UNCHANGED << agents, sample, gemini_reviewer, handler >>

\* the loop turn with the issue list kept on the orchestrator, where every
\* call in its loop sees what any of them adds
RunAgentSharedList(c) ==
  /\ calls[c].pc = "agents"
  /\ calls[c].idx <= Len(agents)
  /\ \E r \in {analyze(agents[calls[c].idx], calls[c].code, calls[c].language)} :
       calls' = [d \in Calls |->
         IF d = c
           THEN [calls[c] EXCEPT
                   !.all_issues = IF r.raised THEN @ ELSE @ \o r.value,
                   !.errors = IF r.raised THEN Append(@, agents[calls[c].idx].name) ELSE @,
                   !.idx = @ + 1,
                   !.pc = IF calls[c].idx = Len(agents) THEN "metrics" ELSE "agents"]
         ELSE IF calls[d].pc = "agents" /\ ~r.raised
           THEN [calls[d] EXCEPT !.all_issues = @ \o r.value]
         ELSE calls[d]]
  /\ UNCHANGED << agents, sample, gemini_reviewer, handler >>

\* review_code, lines 734-739: one turn of the loop over self.agents
RunAgent(c) ==
  /\ calls[c].pc = "agents"
  /\ calls[c].idx <= Len(agents)
  /\ \E r \in {analyze(agents[calls[c].idx], calls[c].code, calls[c].language)} :
       calls' = [calls EXCEPT
         ![c].all_issues = IF r.raised THEN @ ELSE @ \o r.value,
         ![c].errors = IF r.raised THEN Append(@, agents[calls[c].idx].name) ELSE @,
         ![c].idx = @ + 1,
         ![c].pc = IF calls[c].idx = Len(agents) THEN "metrics" ELSE "agents"]
  /\ UNCHANGED << agents, sample, gemini_reviewer, handler >>

\* review_code, line 741
CalculateMetrics(c) ==
  /\ calls[c].pc = "metrics"
  /\ \E r \in {calculate_metrics(calls[c].code, calls[c].language)} :
       calls' = [calls EXCEPT
         ![c].pc = IF r.raised THEN "raised" ELSE "build",
         ![c].exc = IF r.raised THEN r.exc ELSE @,
         ![c].metrics = IF r.raised THEN @ ELSE r.value]
  /\ UNCHANGED << agents, sample, gemini_reviewer, handler >>

\* review_code, lines 743-753: the clock is read for the duration and the
\* timestamp, and the ReviewResult is built and returned
BuildResult(c) ==
  /\ calls[c].pc = "build"
  /\ \E timestamp \in ClockReadings, execution_time \in ClockReadings :
       calls' = [calls EXCEPT
         ![c].pc = "done",
         ![c].result = Some(ReviewResult(calls[c].code_hash, calls[c].language,
                                         timestamp, calls[c].all_issues,
                                         calls[c].metrics, execution_time))]
  /\ UNCHANGED << agents, sample, gemini_reviewer, handler >>

\* the caller takes the Report, or the exception, and the call is over
Return(c) ==
  /\ calls[c].pc \in {"done", "raised"}
  /\ calls' = [calls EXCEPT ![c] = IdleCall]
  /\ UNCHANGED << agents, sample, gemini_reviewer, handler >>

\* review_code run from its first line to its last with nothing else going on:
\* the agents of the list in turn, then the metrics
RECURSIVE RunAgentsAlone(_, _, _, _)
RunAgentsAlone(list, i, code, language) ==
  IF i > Len(list) THEN << >>
  ELSE LET r == analyze(list[i], code, language) IN
       (IF r.raised THEN << >> ELSE r.value) \o RunAgentsAlone(list, i + 1, code, language)

ReviewAlone(code, declared) ==
  LET language == IF declared = NoLanguage THEN detect(Text(code)) ELSE declared
      code_hash == compute_hash(Text(code))
      all_issues == RunAgentsAlone(OrchestratorAgents, 1, code, language)
      metrics == calculate_metrics(code, language)
      blank == [ raised |-> FALSE, exc |-> "", language |-> language,
                 code_hash |-> << >>, issues |-> << >>, metrics |-> CodeMetrics ]
  IN  IF code_hash.raised THEN [blank EXCEPT !.raised = TRUE, !.exc = code_hash.exc]
      ELSE IF metrics.raised THEN [blank EXCEPT !.raised = TRUE, !.exc = metrics.exc]
      ELSE [blank EXCEPT !.code_hash = code_hash.value, !.issues = all_issues,
                         !.metrics = metrics.value]

\* the texts of at most MaxChunks statements
Codes == UNION { [1..n -> Range(Chunks)] : n \in 0..MaxChunks }

DeclaredLanguages == Range(Language) \cup {NoLanguage}

\* one caller: reviews of every text, one after the other
Next ==
  \/ \E code \in Codes, declared \in DeclaredLanguages : StartReview(1, code, declared)
  \/ RunAgent(1)
  \/ CalculateMetrics(1)
  \/ BuildResult(1)
  \/ Return(1)

Spec == Init /\ [][Next]_vars

(***************************************************************************)
(* The threaded server: calls of review_code on the one orchestrator,      *)
(* interleaved at the turns of the agent loop.                             *)
(***************************************************************************)
ChunkNamed(name) == CHOOSE chunk \in Range(Chunks) : chunk.name = name

ConcInputs ==
  { [code |-> << ChunkNamed("EvalDef") >>, declared |-> NoLanguage],
    [code |-> << ChunkNamed("Js") >>, declared |-> "python"] }

NextConc ==
  \E c \in Calls :
    \/ \E input \in ConcInputs : StartReview(c, input.code, input.declared)
    \/ RunAgent(c)
    \/ CalculateMetrics(c)
    \/ BuildResult(c)
    \/ Return(c)

SpecConc == Init /\ [][NextConc]_vars

(***************************************************************************)
(* A ReviewResult built directly: issues are appended to its list, and     *)
(* its summary is derived from the list on demand.                         *)
(***************************************************************************)
SampleIssues ==
  { CodeIssue("Use of eval()", "critical", "security", Some(2), None, None, None),
    CodeIssue("Use of os.system()", "high", "security", Some(1), None, None, None),
    CodeIssue("Mutable default argument in 'f'", "medium", "best_practice", Some(1), None, None, None),
    CodeIssue("Deep nesting detected: 5 levels", "medium", "complexity", None, None, None, None),
    CodeIssue("Multiple statements on one line", "low", "style", Some(1), None, None, None),
    CodeIssue("Trailing whitespace", "info", "style", Some(3), None, None, None) }

\* result.issues.append(issue)
AppendIssue(issue) ==
  /\ Len(sample.issues) < MaxIssues
  /\ sample' = [sample EXCEPT !.issues = Append(@, issue)]
  /\ UNCHANGED << agents, calls, gemini_reviewer, handler >>

NextSummary == \E issue \in SampleIssues : AppendIssue(issue)

SpecSummary == Init /\ [][NextSummary]_vars


(***************************************************************************)
(* A ReviewResult whose metrics are replaced: the grade and the summary    *)
(* are derived from the maintainability index on demand.                   *)
(***************************************************************************)
MaxIndex == 100

\* the maintainability indices tried: every half point from 0 to MaxIndex,
\* and the value just below each whole ten
Indices ==
  { k * (Scale \div 2) : k \in 0..(2 * MaxIndex) }
    \cup { t * 10 * Scale - 1 : t \in 1..(MaxIndex \div 10) }

\* result.metrics = CodeMetrics(maintainability_index=index)
SetMetrics(index) ==
  /\ sample' = [sample EXCEPT !.metrics = [CodeMetrics EXCEPT !.maintainability_index = index]]
  /\ UNCHANGED << agents, calls, gemini_reviewer, handler >>

NextGrade == \E index \in Indices : SetMetrics(index)

SpecGrade == Init /\ [][NextGrade]_vars

(***************************************************************************)
(* The web boundary: POST /api/review, served by api_review (lines         *)
(* 854-887) with the process-wide orchestrator and gemini_reviewer.        *)
(***************************************************************************)
MaxRequests == 2

\* a text of blanks, which no statement catalogue entry gives
Blank ==
  [ name |-> "Blank", lines |-> << <<" ", TAB>>, <<" ">> >>,
    valid |-> TRUE, msg |-> "", errline |-> 0, erroffset |-> 0, nodes |-> << >> ]

\* the texts sent as "code"
ApiCodes ==
  { << >>, << Blank >>, << ChunkNamed("EvalDef") >>, << ChunkNamed("Deep") >>,
    << ChunkNamed("Surr") >>, << ChunkNamed("Chain") >> }

\* the JSON values sent under "code", "language" and "include_ai"; type
\* "missing" is a key the object does not have
CodeValues ==
  { [type |-> t, code |-> << >>] : t \in {"missing", "null", "number"} }
    \cup { [type |-> "string", code |-> code] : code \in ApiCodes }

LanguageValues ==
  { [type |-> "missing", name |-> ""] }
    \cup { [type |-> "string", name |-> name] : name \in {"python", "java", "cobol"} }

IncludeAiValues ==
  { [type |-> "missing", flag |-> FALSE], [type |-> "bool", flag |-> FALSE],
    [type |-> "bool", flag |-> TRUE] }

\* the request bodies: no JSON at all, the JSON null, a JSON array, and
\* JSON objects
Bodies ==
  { [json |-> j, code |-> [type |-> "missing", code |-> << >>],
     language |-> [type |-> "missing", name |-> ""],
     include_ai |-> [type |-> "missing", flag |-> FALSE]] : j \in {"none", "null", "array"} }
    \cup { [json |-> "object", code |-> c, language |-> l, include_ai |-> a] :
             c \in CodeValues, l \in LanguageValues, a \in IncludeAiValues }

\* request.get_json() (line 858): a body that is no JSON makes it raise or
\* give None, depending on the Flask version and the request's content type
get_json(body) ==
  IF body.json = "none" THEN { Raised("BadRequest", None), Returned(None) }
  ELSE IF body.json = "null" THEN { Returned(None) }
  ELSE { Returned(Some(body)) }

\* a response of api_review: jsonify(...) and the status
ErrorResponse(status, error) == [ status |-> status, error |-> error, report |-> None ]

OkResponse(report) == [ status |-> 200, error |-> "", report |-> Some(report) ]

\* round(x, 2) of a value kept in units of 1/Scale, in hundredths
Round2(x) ==
  LET q == x \div (Scale \div 100)
      r == x % (Scale \div 100)
      half == Scale \div 200
  IN  IF r > half THEN q + 1
      ELSE IF r < half THEN q
      ELSE q + (q % 2)

\* CodeMetrics.to_dict (lines 154-168)
MetricsDict(metrics) ==
  [ lines_of_code |-> metrics.lines_of_code,
    blank_lines |-> metrics.blank_lines,
    comment_lines |-> metrics.comment_lines,
    cyclomatic_complexity |-> metrics.cyclomatic_complexity,
    cognitive_complexity |-> metrics.cognitive_complexity,
    maintainability_index |-> Round2(metrics.maintainability_index),
    function_count |-> metrics.function_count,
    class_count |-> metrics.class_count,
    avg_function_length |-> metrics.avg_function_length,
    max_function_length |-> metrics.max_function_length,
    nesting_depth |-> metrics.nesting_depth,
    grade |-> get_grade(metrics) ]

\* lines 72-86: the colour of a severity is written by its name
SEVERITY_COLORS ==
  [ critical |-> "red", high |-> "orange", medium |-> "yellow", low |-> "blue",
    info |-> "white" ]

SEVERITY_CSS ==
  [ critical |-> "critical", high |-> "high", medium |-> "medium", low |-> "low",
    info |-> "info" ]

\* CodeIssue.to_dict (lines 126-137)
IssueDict(issue) ==
  [ message |-> issue.message, severity |-> issue.severity,
    severity_class |-> SEVERITY_CSS[issue.severity],
    category |-> issue.category, line_number |-> issue.line_number,
    column |-> issue.column, suggestion |-> issue.suggestion,
    code_snippet |-> issue.code_snippet, icon |-> SEVERITY_COLORS[issue.severity] ]

\* ReviewResult.to_dict (lines 194-205)
to_dict(result) ==
  [ code_hash |-> result.code_hash, language |-> result.language,
    timestamp |-> result.timestamp,
    issues |-> [i \in DOMAIN result.issues |-> IssueDict(result.issues[i])],
    metrics |-> MetricsDict(result.metrics),
    ai_suggestions |-> result.ai_suggestions,
    execution_time |-> result.execution_time,
    summary |-> get_summary(result) ]

\* Language(language_str) under `if language_str:` (lines 868-873): a value
\* that is no language name gives None
DeclaredBy(language) ==
  IF language.type = "string" /\ language.name \in Range(Language)
    THEN language.name ELSE NoLanguage

\* api_review, lines 859-873, for the data get_json gave: the handler has
\* answered, or holds the code and the language to review
Received(h, body, data) ==
  IF data = None \/ body.json = "array"
    THEN [h EXCEPT !.pc = "responded", !.body = body,
                   !.response = Some(ErrorResponse(500, "AttributeError"))]
  ELSE IF body.code.type \in {"null", "number"}
    THEN [h EXCEPT !.pc = "responded", !.body = body,
                   !.response = Some(ErrorResponse(500, "AttributeError"))]
  ELSE IF Strip(Text(body.code.code)) = << >>
    THEN [h EXCEPT !.pc = "responded", !.body = body,
                   !.response = Some(ErrorResponse(400, "No code provided"))]
  ELSE [h EXCEPT !.pc = "review", !.body = body, !.code = body.code.code,
                 !.language = DeclaredBy(body.language),
                 !.include_ai = body.include_ai.flag]

\* api_review, lines 857-873: the body is read and validated
ApiReceive(body) ==
  /\ handler.pc = "idle"
  /\ handler.served < MaxRequests
  /\ \E data \in get_json(body) :
       handler' = IF data.raised
                    THEN [handler EXCEPT !.pc = "responded", !.body = body,
                            !.response = Some(ErrorResponse(500, data.exc))]
                    ELSE Received(handler, body, data.value)
  /\ UNCHANGED << agents, calls, sample, gemini_reviewer >>

\* api_review, line 876: orchestrator.review_code(code, language) is entered
ApiInvoke ==
  /\ handler.pc = "review"
  /\ calls[1].pc = "idle"
  /\ \E language \in {IF handler.language = NoLanguage THEN detect(Text(handler.code))
                                                     ELSE handler.language},
        code_hash \in {compute_hash(Text(handler.code))} :
       calls' = [calls EXCEPT ![1] = Entered(handler.code, handler.language, language, code_hash)]
  /\ handler' = [handler EXCEPT !.pc = "reviewing", !.invoked = TRUE]
  /\ UNCHANGED << agents, sample, gemini_reviewer >>

\* api_review, lines 876-879 and 886-887: review_code has returned its
\* ReviewResult, whose issue list (line 733) and CodeMetrics (line 741) are
\* objects made by this call, numbered in the order they are made; or it has
\* raised, and the handler answers 500
ApiTakeResult ==
  /\ handler.pc = "reviewing"
  /\ calls[1].pc \in {"done", "raised"}
  /\ handler' =
       IF calls[1].pc = "raised"
         THEN [handler EXCEPT !.pc = "responded",
                 !.response = Some(ErrorResponse(500, calls[1].exc))]
         ELSE [handler EXCEPT
                 !.pc = IF handler.include_ai /\ calls[1].result[1].issues # << >>
                          THEN "suggest" ELSE "jsonify",
                 !.result = calls[1].result,
                 !.reports = Append(@, [issues |-> handler.allocated + 1,
                                        metrics |-> handler.allocated + 2]),
                 !.allocated = @ + 2]
  /\ calls' = [calls EXCEPT ![1] = IdleCall]
  /\ UNCHANGED << agents, sample, gemini_reviewer >>

\* GeminiCodeReviewer.get_suggestions (lines 802-836): None when the
\* reviewer is not available; else the text of the model's response, or,
\* when generate_content raises, the text of the error
get_suggestions(reviewer) ==
  IF ~reviewer.available THEN { [ai |-> "unavailable", text |-> None] }
  ELSE { [ai |-> "answered", text |-> Some("suggestions")],
         [ai |-> "failed", text |-> Some("Error getting AI suggestions: error")] }

\* api_review, lines 877-883: the suggestions are asked for and stored in the
\* ReviewResult that review_code returned
ApiSuggest ==
  /\ handler.pc = "suggest"
  /\ \E ai_suggestions \in get_suggestions(gemini_reviewer) :
       handler' = [handler EXCEPT
         !.pc = "jsonify",
         !.ai = ai_suggestions.ai,
         !.result = Some([handler.result[1] EXCEPT !.ai_suggestions = ai_suggestions.text]),
         !.writes = Append(@, "ai_suggestions")]
  /\ UNCHANGED << agents, calls, sample, gemini_reviewer >>

\* api_review, line 884: jsonify(result.to_dict())
ApiRespond ==
  /\ handler.pc = "jsonify"
  /\ handler' = [handler EXCEPT !.pc = "responded",
                   !.response = Some(OkResponse(to_dict(handler.result[1])))]
  /\ UNCHANGED << agents, calls, sample, gemini_reviewer >>

\* the response is sent and the handler is free for the next request
ApiDone ==
  /\ handler.pc = "responded"
  /\ handler' = [IdleHandler EXCEPT !.served = handler.served + 1,
                                    !.allocated = handler.allocated,
                                    !.reports = handler.reports]
  /\ UNCHANGED << agents, calls, sample, gemini_reviewer >>

NextApi ==
  \/ \E body \in Bodies : ApiReceive(body)
  \/ ApiInvoke
  \/ RunAgent(1)
  \/ CalculateMetrics(1)
  \/ BuildResult(1)
  \/ ApiTakeResult
  \/ ApiSuggest
  \/ ApiRespond
  \/ ApiDone

\* the process after lines 846-847, with the reviewer configured or not
InitApi ==
  /\ agents = OrchestratorAgents
  /\ calls = [c \in Calls |-> IdleCall]
  /\ sample = EmptyResult
  /\ \E configured \in BOOLEAN : gemini_reviewer = GeminiCodeReviewer(configured)
  /\ handler = IdleHandler

SpecApi == InitApi /\ [][NextApi]_vars
(***************************************************************************)
(* Properties.                                                             *)
(***************************************************************************)
Done(c) == calls[c].pc = "done"

\* the Report a finished call returns
Report(c) == calls[c].result[1]

\* the issues of a list that have the given category, in the list's order
IssuesOf(issues, category) == SelectSeq(issues, LAMBDA i : i.category = category)

\* the categories the six agents report, in the order Syntax, Security, Style,
\* Complexity, Documentation, BestPractice
FixedOrder ==
  << "syntax", "security", "style", "complexity", "documentation", "best_practice" >>

RankOf(category) == CHOOSE r \in DOMAIN FixedOrder : FixedOrder[r] = category

\* what agent number r of the constructed list answers for the call's text,
\* nothing if it raises
Contribution(c, r) ==
  LET a == analyze(OrchestratorAgents[r], calls[c].code, calls[c].language) IN
  IF a.raised THEN << >> ELSE a.value

Faults(c, r) == analyze(OrchestratorAgents[r], calls[c].code, calls[c].language).raised

\* C1: when an agent's analyze raises during review_code, the fault is caught
\* in the loop (the call goes on to the next agent), the agent adds no issue,
\* the issues of the agents that did not raise are all in the Report, and the
\* call returns a Report, not an exception.
C1_AgentFaultNeverAbortsReview ==
  \A c \in Calls :
    calls[c].errors # << >> =>
      /\ calls[c].pc # "raised"
      /\ calls[c].pc \in {"agents", "metrics", "build", "done"}
      /\ calls[c].all_issues =
           Flatten([r \in 1..(calls[c].idx - 1) |-> Contribution(c, r)])

\* C2: the issue list of a Report is the concatenation of the six agents'
\* lists in the fixed order: no issue of an earlier agent comes after one of a
\* later agent, every agent's issues are there in the agent's own order, and
\* the list holds nothing else.
C2_IssuesInAgentOrder ==
  \A c \in Calls :
    Done(c) =>
      LET issues == Report(c).issues IN
      /\ \A i, j \in DOMAIN issues :
           i < j => RankOf(issues[i].category) <= RankOf(issues[j].category)
      /\ \A r \in DOMAIN FixedOrder :
           IssuesOf(issues, FixedOrder[r]) = Contribution(c, r)
      /\ Len(issues) = SumSeq([r \in DOMAIN FixedOrder |-> Len(Contribution(c, r))])

\* a Report with issues of three agents, two of them from the same agent
C2_Witness ==
  \E c \in Calls :
    /\ Done(c)
    /\ Cardinality({ Report(c).issues[i].category : i \in DOMAIN Report(c).issues }) >= 3
    /\ \E i, j \in DOMAIN Report(c).issues :
         i < j /\ Report(c).issues[i].category = Report(c).issues[j].category

\* C3: two Reports for the same text and the same declared language have the
\* same issues, metrics, content hash and language, whatever was reviewed
\* before or meanwhile; the timestamp and the duration are free.
C3_Deterministic ==
  \A c, d \in Calls :
    /\ Done(c) /\ Done(d)
    /\ calls[c].code = calls[d].code
    /\ calls[c].declared = calls[d].declared
    => /\ Report(c).issues = Report(d).issues
       /\ Report(c).metrics = Report(d).metrics
       /\ Report(c).code_hash = Report(d).code_hash
       /\ Report(c).language = Report(d).language

\* two Reports for the same input that differ in timestamp and duration
C3_Witness ==
  \E c, d \in Calls :
    /\ c # d /\ Done(c) /\ Done(d)
    /\ calls[c].code = calls[d].code /\ calls[c].declared = calls[d].declared
    /\ Report(c).issues # << >>
    /\ Report(c).timestamp # Report(d).timestamp
    /\ Report(c).execution_time # Report(d).execution_time

\* the names of the six agents, in construction order
SixAgents ==
  << "SyntaxAnalyzer", "SecurityAgent", "StyleAgent", "ComplexityAgent",
     "DocumentationAgent", "BestPracticesAgent" >>

\* C4: with calls interleaved in any way, every Report is the one the call
\* would have produced running alone, and the orchestrator's agent list is
\* the six agents in their construction order in every state.
C4_Reentrant ==
  /\ [a \in DOMAIN agents |-> agents[a].name] = SixAgents
  /\ \A c \in Calls :
       Done(c) =>
         LET alone == ReviewAlone(calls[c].code, calls[c].declared) IN
         /\ ~alone.raised
         /\ Report(c).issues = alone.issues
         /\ Report(c).metrics = alone.metrics
         /\ Report(c).code_hash = alone.code_hash
         /\ Report(c).language = alone.language

\* one call holds its Report while another, for a different text, is in the
\* middle of the agent loop with issues collected
C4_Witness ==
  \E c, d \in Calls :
    /\ Done(c) /\ Report(c).issues # << >>
    /\ calls[d].pc = "agents" /\ calls[d].idx > 3 /\ calls[d].all_issues # << >>
    /\ calls[c].code # calls[d].code

\* C5: when the language is python and ast.parse reports a SyntaxError, the
\* Report is produced with exactly one syntax issue, critical, at the error's
\* line and offset; no agent raises; there is no complexity, documentation or
\* best_practice issue; the security and style issues are those of the line
\* scans.
ParseFails(c) ==
  calls[c].language = "python" /\ ast_parse(calls[c].code).kind = "SyntaxError"

C5_SyntaxFault ==
  \A c \in Calls :
    ParseFails(c) =>
      /\ calls[c].pc # "raised"
      /\ calls[c].errors = << >>
      /\ Done(c) =>
           LET issues == Report(c).issues
               syntax == IssuesOf(issues, "syntax")
           IN  /\ Len(syntax) = 1
               /\ syntax[1].severity = "critical"
               /\ syntax[1].line_number = Some(ast_parse(calls[c].code).lineno)
               /\ syntax[1].column = Some(ast_parse(calls[c].code).offset)
               /\ IssuesOf(issues, "complexity") = << >>
               /\ IssuesOf(issues, "documentation") = << >>
               /\ IssuesOf(issues, "best_practice") = << >>
               /\ IssuesOf(issues, "security") =
                    check_security(Text(calls[c].code), "python")
               /\ IssuesOf(issues, "style") =
                    check_style(Text(calls[c].code), DefaultMaxLineLength)

\* a Report for python text that does not parse, with security and style issues
C5_Witness ==
  \E c \in Calls :
    /\ ParseFails(c) /\ Done(c)
    /\ IssuesOf(Report(c).issues, "security") # << >>
    /\ IssuesOf(Report(c).issues, "style") # << >>
    /\ IssuesOf(Report(c).issues, "syntax") # << >>

\* how many issues of a list have the given severity
WithSeverity(issues, severity) ==
  Len(SelectSeq(issues, LAMBDA i : i.severity = severity))

\* C6: the risk level of the summary is CRITICAL when an issue is critical,
\* else HIGH when more than two are high, else MEDIUM when one is high, else
\* LOW; leaving the medium, low and info issues out of the list gives the
\* same level.
C6_RiskLevel ==
  LET issues == sample.issues
      grave == SelectSeq(issues, LAMBDA i : i.severity \in {"critical", "high"})
      risk == get_summary(sample).risk_level
  IN  /\ risk = IF WithSeverity(issues, "critical") >= 1 THEN "CRITICAL"
                ELSE IF WithSeverity(issues, "high") > 2 THEN "HIGH"
                ELSE IF WithSeverity(issues, "high") >= 1 THEN "MEDIUM"
                ELSE "LOW"
      /\ get_summary([sample EXCEPT !.issues = grave]).risk_level = risk

\* three high issues and a lesser one, none critical: HIGH
C6_Witness ==
  /\ WithSeverity(sample.issues, "critical") = 0
  /\ WithSeverity(sample.issues, "high") = 3
  /\ WithSeverity(sample.issues, "medium") >= 1
  /\ get_summary(sample).risk_level = "HIGH"

\* C7: by_severity has exactly the five severities as keys and by_category
\* the eight categories, each value is the number of issues of the list with
\* that severity or category (0 when there is none), and total_issues is the
\* length of the list, the sum of by_severity and the sum of by_category.
C7_SummaryCounts ==
  LET summary == get_summary(sample)
      issues == sample.issues
  IN  /\ DOMAIN summary.by_severity = Range(Severity)
      /\ DOMAIN summary.by_category = Range(IssueCategory)
      /\ Cardinality(DOMAIN summary.by_severity) = 5
      /\ Cardinality(DOMAIN summary.by_category) = 8
      /\ \A s \in Range(Severity) :
           /\ summary.by_severity[s] >= 0
           /\ summary.by_severity[s] = WithSeverity(issues, s)
      /\ \A c \in Range(IssueCategory) :
           /\ summary.by_category[c] >= 0
           /\ summary.by_category[c] = Len(IssuesOf(issues, c))
      /\ summary.total_issues = Len(issues)
      /\ summary.total_issues =
           SumSeq([k \in DOMAIN Severity |-> summary.by_severity[Severity[k]]])
      /\ summary.total_issues =
           SumSeq([k \in DOMAIN IssueCategory |-> summary.by_category[IssueCategory[k]]])

\* a list with a severity that occurs twice and one that does not occur
C7_Witness ==
  /\ Len(sample.issues) >= 3
  /\ \E s \in Range(Severity) : get_summary(sample).by_severity[s] >= 2
  /\ \E s \in Range(Severity) : get_summary(sample).by_severity[s] = 0
  /\ \E c \in Range(IssueCategory) : get_summary(sample).by_category[c] = 0

\* C8 as stated: in the metrics of every Report cyclomatic complexity is at
\* least 1, cognitive complexity at least 0 and nesting depth at least 0.
C8_CyclomaticAtLeastOne ==
  \A c \in Calls :
    Done(c) =>
      /\ Report(c).metrics.cyclomatic_complexity >= 1
      /\ Report(c).metrics.cognitive_complexity >= 0
      /\ Report(c).metrics.nesting_depth >= 0

\* the try block of calculate_complexity fails for the call's text
ComplexityFails(c) ==
  LET p == ast_parse(calls[c].code) IN
  p.kind # "Module" \/ NodeDepth(p.tree) > RecursionLimit

\* C8 amended: cognitive complexity and nesting depth are at least 0;
\* cyclomatic complexity is at least 1, except for python text on which the
\* complexity computation fails (the text does not parse, or its tree is too
\* deep for the recursive walk), where all three are 0.
C8_ZeroOnlyOnFailure ==
  \A c \in Calls :
    Done(c) =>
      LET metrics == Report(c).metrics IN
      /\ metrics.cognitive_complexity >= 0
      /\ metrics.nesting_depth >= 0
      /\ IF calls[c].language = "python" /\ ComplexityFails(c)
           THEN /\ metrics.cyclomatic_complexity = 0
                /\ metrics.cognitive_complexity = 0
                /\ metrics.nesting_depth = 0
           ELSE metrics.cyclomatic_complexity >= 1

\* a Report for python text that does not parse: all three are 0
C8_Witness ==
  \E c \in Calls :
    /\ Done(c) /\ ParseFails(c)
    /\ Report(c).metrics.cyclomatic_complexity = 0
    /\ Report(c).metrics.cognitive_complexity = 0
    /\ Report(c).metrics.nesting_depth = 0

\* C9: every review returns a Report, never an exception; its
\* maintainability index is between 0 and 100, its issue count at least 0,
\* and the index is 100 when no line of the text is code.
C9_AlwaysReport ==
  \A c \in Calls :
    /\ calls[c].pc # "raised"
    /\ Done(c) =>
         /\ Report(c).metrics.maintainability_index >= 0
         /\ Report(c).metrics.maintainability_index <= 100 * Scale
         /\ Len(Report(c).issues) >= 0
         /\ Report(c).metrics.lines_of_code = 0 =>
              Report(c).metrics.maintainability_index = 100 * Scale

\* C10: when the language is not python, the syntax, complexity,
\* documentation and best-practice agents add nothing, every issue collected
\* is a security or a style issue, and the metrics of the Report are the line
\* counts with cyclomatic 1, cognitive 0, nesting 0, maintainability 100 and
\* no functions or classes.
Reviewing(c) == calls[c].pc \in {"agents", "metrics", "build", "done"}

C10_OtherLanguages ==
  \A c \in Calls :
    Reviewing(c) /\ calls[c].language # "python" =>
      /\ calls[c].language \in {"javascript", "typescript", "java", "go", "unknown"}
      /\ \A r \in {1, 4, 5, 6} : ~Faults(c, r) /\ Contribution(c, r) = << >>
      /\ \A i \in DOMAIN calls[c].all_issues :
           calls[c].all_issues[i].category \in {"security", "style"}
      /\ Done(c) =>
           LET metrics == Report(c).metrics
               counts == count_lines(Text(calls[c].code))
           IN  /\ Report(c).issues = calls[c].all_issues
               /\ metrics.lines_of_code = counts.total - counts.blank - counts.comment
               /\ metrics.blank_lines = counts.blank
               /\ metrics.comment_lines = counts.comment
               /\ metrics.cyclomatic_complexity = 1
               /\ metrics.cognitive_complexity = 0
               /\ metrics.nesting_depth = 0
               /\ metrics.maintainability_index = 100 * Scale
               /\ metrics.function_count = 0
               /\ metrics.class_count = 0

\* a Report for javascript text with a security and a style issue
C10_Witness ==
  \E c \in Calls :
    /\ Done(c) /\ calls[c].language = "javascript"
    /\ IssuesOf(Report(c).issues, "security") # << >>
    /\ IssuesOf(Report(c).issues, "style") # << >>
    /\ Report(c).metrics.lines_of_code > 0


(***************************************************************************)
(* Properties of the web boundary.                                         *)
(***************************************************************************)
Responded == handler.pc = "responded"

Response == handler.response[1]

\* the body sends no code: "code" is missing, empty or all blanks
SendsNoCode(body) ==
  /\ body.json = "object"
  /\ \/ body.code.type = "missing"
     \/ body.code.type = "string" /\ Strip(Text(body.code.code)) = << >>

\* the body is structurally invalid: it is no JSON, or no JSON object, or its
\* "code" is no string
StructurallyInvalid(body) ==
  \/ body.json # "object"
  \/ body.code.type \in {"null", "number"}

\* C11: a request whose code is empty, all blanks or missing, and every
\* structurally invalid request body (one with no JSON object at all
\* included), is answered with a client error carrying an error, and
\* review_code is never entered for it.
C11_InvalidRequestRejected ==
  /\ Responded /\ (SendsNoCode(handler.body) \/ StructurallyInvalid(handler.body)) =>
       /\ Response.status \in 400..499
       /\ Response.error # ""
       /\ Response.report = None
       /\ ~handler.invoked
  /\ handler.pc \in {"review", "reviewing", "suggest", "jsonify"} =>
       ~(SendsNoCode(handler.body) \/ StructurallyInvalid(handler.body))

\* the Report review_code gave to the handler, and what the response carries
Reviewed == handler.result # None

\* what a request for the same code and language with include_ai false is
\* answered: the Report of the review, as the dict of to_dict
WithoutAi(report) ==
  LET alone == ReviewAlone(handler.code, handler.language) IN
  /\ ~alone.raised
  /\ report.issues = [i \in DOMAIN alone.issues |-> IssueDict(alone.issues[i])]
  /\ report.metrics = MetricsDict(alone.metrics)
  /\ report.summary =
       get_summary(ReviewResult(alone.code_hash, alone.language, 0, alone.issues,
                                alone.metrics, 0))

\* C12: whenever the AI reviewer is unavailable, is not asked for, or its
\* call fails, the request is still answered with a complete Report whose
\* ai_suggestions is null and whose issues, metrics and summary are those of
\* the same request with include_ai false.
C12_AiStrictlyAdditive ==
  Responded /\ Reviewed
    /\ (~gemini_reviewer.available \/ ~handler.include_ai \/ handler.ai = "failed") =>
      /\ Response.status = 200
      /\ Response.report # None
      /\ Response.report[1].ai_suggestions = None
      /\ WithoutAi(Response.report[1])

\* C13: the Report, its issue list and its metrics are made by the review
\* call; no field of the Report is written after review_code has returned,
\* whether or not the request asks for AI suggestions; and no two reviews
\* share an issue list or a metrics object.
C13_ReportFreshAndNeverWritten ==
  /\ Reviewed => handler.writes = << >>
  /\ \A i, j \in DOMAIN handler.reports :
       /\ handler.reports[i].issues # handler.reports[j].metrics
       /\ i # j => /\ handler.reports[i].issues # handler.reports[j].issues
                   /\ handler.reports[i].metrics # handler.reports[j].metrics

(***************************************************************************)
(* Properties of the analysis functions, over the reviews of Spec.         *)
(***************************************************************************)
\* the order in which the languages are enumerated
EnumerationOrder == << "python", "javascript", "typescript", "java", "go" >>

\* the patterns of a language in the detector's table
PatternsOf(lang) ==
  (CHOOSE r \in Range(PATTERNS) : r.lang = lang).patterns

\* the score vector of a text: per language, how many of its patterns are
\* found in the text, each counted once
ScoreVector(text) ==
  [ n \in DOMAIN EnumerationOrder |->
      Cardinality({ p \in DOMAIN PatternsOf(EnumerationOrder[n]) :
                      Search(PatternsOf(EnumerationOrder[n])[p], text, Multiline) }) ]

\* the call detects the language of its text
Detecting(c) == calls[c].pc # "idle" /\ calls[c].declared = NoLanguage

\* C14: detect gives the language with the highest score, the score of a
\* language being the number of its patterns found in the text; it gives
\* unknown exactly when every score is 0; of several languages with the
\* highest score it gives the earliest in the order python, javascript,
\* typescript, java, go; so the result is a function of the score vector.
C14_DetectFirstHighest ==
  \A c \in Calls :
    Detecting(c) =>
      LET score == ScoreVector(Text(calls[c].code))
          language == calls[c].language
      IN  /\ language = "unknown" <=> \A n \in DOMAIN score : score[n] = 0
          /\ language # "unknown" =>
               \E n \in DOMAIN EnumerationOrder :
                 /\ language = EnumerationOrder[n]
                 /\ \A m \in DOMAIN score : score[m] <= score[n]
                 /\ \A m \in DOMAIN score : m < n => score[m] < score[n]

\* a text on which two languages share the highest score
C14_Witness ==
  \E c \in Calls :
    /\ Detecting(c)
    /\ calls[c].language # "unknown"
    /\ LET score == ScoreVector(Text(calls[c].code)) IN
       \E n, m \in DOMAIN score :
         /\ n < m
         /\ calls[c].language = EnumerationOrder[n]
         /\ score[n] = score[m]
         /\ \A k \in DOMAIN score : score[k] <= score[n]

\* the grades from worst to best
GradeOrder == << "F", "D", "C", "B", "A" >>

GradeRank(grade) == CHOOSE r \in DOMAIN GradeOrder : GradeOrder[r] = grade

\* C15: the grade of a metrics value is A for an index of at least 80, B
\* from 60, C from 40, D from 20 and F below; a higher index never has a
\* worse grade; and the quality_grade of a Report's summary is the grade of
\* its metrics.
C15_GradeThresholds ==
  LET index == sample.metrics.maintainability_index
      grade == get_grade(sample.metrics)
  IN  /\ grade = "A" <=> index >= 80 * Scale
      /\ grade = "B" <=> index >= 60 * Scale /\ index < 80 * Scale
      /\ grade = "C" <=> index >= 40 * Scale /\ index < 60 * Scale
      /\ grade = "D" <=> index >= 20 * Scale /\ index < 40 * Scale
      /\ grade = "F" <=> index < 20 * Scale
      /\ \A other \in Indices :
           index <= other =>
             GradeRank(grade) <=
               GradeRank(get_grade([CodeMetrics EXCEPT !.maintainability_index = other]))
      /\ get_summary(sample).quality_grade = grade

\* a Report whose index is exactly a threshold and whose summary shows the
\* grade that starts there
C15_Witness ==
  /\ sample.metrics.maintainability_index = 40 * Scale
  /\ get_summary(sample).quality_grade = "C"

\* agent number r of the list has had its turn in the call
HasRun(c, r) == Reviewing(c) /\ calls[c].idx > r

\* the line is an import-style statement
ImportStyle(line) ==
  \/ StartsWith(Strip(line), << "i", "m", "p", "o", "r", "t", " " >>)
  \/ StartsWith(Strip(line), << "f", "r", "o", "m", " " >>)

\* the line is a statement that is no import: not blank, no comment and not
\* import-style
OtherStatement(line) ==
  /\ Strip(line) # << >>
  /\ ~StartsWith(Strip(line), << "#" >>)
  /\ ~ImportStyle(line)

\* the numbers of the lines for which the call has an issue with the message
LinesWith(c, message) ==
  { calls[c].all_issues[i].line_number[1] :
      i \in { j \in DOMAIN calls[c].all_issues : calls[c].all_issues[j].message = message } }

\* C16: the style pass raises "Import not at top of file" for a line exactly
\* when the line is an import-style statement and an earlier line of the text
\* is a statement that is not blank, not a comment and not an import; so once
\* such a statement has been seen, every later import-style line is flagged.
C16_LateImports ==
  \A c \in Calls :
    HasRun(c, 3) =>
      LET lines == Split(Text(calls[c].code)) IN
      LinesWith(c, "Import not at top of file") =
        { i \in DOMAIN lines :
            ImportStyle(lines[i]) /\ \E j \in 1..(i - 1) : OtherStatement(lines[j]) }

BranchTypes == {"If", "While", "For", "ExceptHandler"}

BlockTypes == {"If", "While", "For", "With", "Try"}

\* the nodes of a tree, each with the number of if/while/for/with/try
\* constructs around it
RECURSIVE Enclosed(_, _)
Enclosed(node, around) ==
  << [ type |-> node.type, operands |-> node.nvalues, around |-> around ] >>
    \o Flatten([k \in DOMAIN node.kids |->
                  Enclosed(node.kids[k],
                           IF node.type \in BlockTypes THEN around + 1 ELSE around)])

\* the text of the call parses
Parses(c) == ast_parse(calls[c].code).kind = "Module"

\* C17: for a python text that parses, cyclomatic complexity is 1 plus the
\* number of if/while/for/handler nodes plus, per boolean expression, its
\* operands less one; cognitive complexity is, per if/while/for/handler
\* node, 1 plus the nesting depth at which it is entered, plus the same sum
\* over the boolean expressions; the nesting depth is the largest number of
\* if/while/for/with/try constructs around or at a node; so cognitive is at
\* least cyclomatic less 1, and a tree with no such node has 1, 0 and 0.
C17_ComplexityFormulas ==
  \A c \in Calls :
    Done(c) /\ calls[c].language = "python" /\ Parses(c) =>
      LET nodes == Enclosed(ast_parse(calls[c].code).tree, 0)
          branches == { n \in DOMAIN nodes : nodes[n].type \in BranchTypes }
          operands == SumSeq([n \in DOMAIN nodes |->
                                IF nodes[n].type = "BoolOp" THEN nodes[n].operands - 1 ELSE 0])
          metrics == Report(c).metrics
      IN  /\ metrics.cyclomatic_complexity = 1 + Cardinality(branches) + operands
          /\ metrics.cognitive_complexity =
               SumSeq([n \in DOMAIN nodes |->
                         IF n \in branches THEN 1 + nodes[n].around ELSE 0]) + operands
          /\ metrics.nesting_depth =
               MaxOf([n \in DOMAIN nodes |->
                        IF nodes[n].type \in BlockTypes THEN nodes[n].around + 1
                                                         ELSE nodes[n].around])
          /\ metrics.cognitive_complexity >= metrics.cyclomatic_complexity - 1
          /\ (branches = {} /\ operands = 0
                /\ \A n \in DOMAIN nodes : nodes[n].type \notin BlockTypes) =>
               /\ metrics.cyclomatic_complexity = 1
               /\ metrics.cognitive_complexity = 0
               /\ metrics.nesting_depth = 0

\* the table a language is scanned with: its own, or the native language's
TableOf(language) ==
  IF language = "javascript" THEN SECURITY_PATTERNS["javascript"]
  ELSE SECURITY_PATTERNS["python"]

\* the place of a security issue in the scan: its line and the number of its
\* pattern in the table
PlaceOf(issue, table) ==
  [ line |-> issue.line_number[1],
    pattern |-> CHOOSE p \in DOMAIN table : table[p].message = issue.message ]

\* C18: the security check gives exactly one issue for every pair of a line
\* and a pattern of the resolved language's table that is found in the line
\* without regard to case, however often it is found there, and no other
\* issue; the issue has the line's number counted from 1, the category
\* security and the message and severity of the pattern; the issues are in
\* the order of the lines and, on one line, of the table; typescript, java,
\* go and unknown are scanned with the table of python.
C18_SecurityScan ==
  \A c \in Calls :
    HasRun(c, 2) =>
      LET lines == Split(Text(calls[c].code))
          table == TableOf(calls[c].language)
          issues == IssuesOf(calls[c].all_issues, "security")
      IN  /\ \A i \in DOMAIN lines, p \in DOMAIN table :
               Cardinality({ k \in DOMAIN issues :
                               /\ issues[k].line_number = Some(i)
                               /\ issues[k].message = table[p].message
                               /\ issues[k].severity = table[p].severity }) =
                 IF Search(table[p].pattern, lines[i], IgnoreCase) THEN 1 ELSE 0
          /\ \A k \in DOMAIN issues :
               /\ issues[k].line_number # None
               /\ issues[k].line_number[1] \in DOMAIN lines
               /\ \E p \in DOMAIN table :
                    /\ issues[k].message = table[p].message
                    /\ issues[k].severity = table[p].severity
          /\ \A k, n \in DOMAIN issues :
               k < n =>
                 \/ PlaceOf(issues[k], table).line < PlaceOf(issues[n], table).line
                 \/ /\ PlaceOf(issues[k], table).line = PlaceOf(issues[n], table).line
                    /\ PlaceOf(issues[k], table).pattern < PlaceOf(issues[n], table).pattern

\* a text in a language without a table of its own, with security issues on
\* two lines, one of them for a line that holds the pattern twice
C18_Witness ==
  \E c \in Calls :
    /\ HasRun(c, 2)
    /\ calls[c].language \in {"typescript", "java", "go", "unknown"}
    /\ LET issues == IssuesOf(calls[c].all_issues, "security")
           lines == Split(Text(calls[c].code))
       IN  \E k, n \in DOMAIN issues :
             /\ issues[k].line_number[1] < issues[n].line_number[1]
             /\ issues[n].message = "Use of eval()"
             /\ LET line == lines[issues[n].line_number[1]] IN
                \E a, b \in DOMAIN line :
                  /\ a < b
                  /\ \A at \in {a, b} :
                       /\ at + 4 <= Len(line)
                       /\ SubSeq(line, at, at + 4) = << "e", "v", "a", "l", "(" >>
=============================================================================
